---- MODULE Spec2Model ----
(***************************************************************************)
(* A model of midnight-trusted-setup: the KZG powers-of-tau ceremony tool. *)
(*                                                                         *)
(* The BLS12-381 groups G1, G2 and GT all have the prime order r of the    *)
(* scalar field.  A group element is represented by its discrete logarithm *)
(* with respect to the group's generator, so that the identity is 0, the   *)
(* generator is 1, point addition is addition mod r, scalar multiplication *)
(* is multiplication mod r and the pairing multiplies the logarithms.  The *)
(* model replaces r by a small prime, FieldOrder.                          *)
(***************************************************************************)
EXTENDS Integers, Sequences, FiniteSets, TLC

VARIABLES
    pc,          \* the position of the running command or test
    sch_g,       \* SchnorrProof::prove: the base g
    sch_h,       \* SchnorrProof::prove: the point h
    sch_x,       \* SchnorrProof::prove: the witness x
    sch_r,       \* SchnorrProof::prove: the nonce r drawn from OsRng
    sch_proof,   \* the SchnorrProof (a, z) returned by prove
    ver_g,       \* SchnorrProof::verify: the g it is called with
    ver_h,       \* SchnorrProof::verify: the h it is called with
    ver_proof,   \* SchnorrProof::verify: the proof (a, z) it is called on
    tampered,    \* which of g, h, a, z was replaced after prove ("none": nothing)
    accepted,    \* whether verify returned (TRUE) or panicked (FALSE)
    srs,         \* the SRS in memory: [g1s, g2s]
    srs_old,     \* the SRS as it was when SRS::update was called
    tau,         \* the secret SRS::generate drew
    corruption,  \* how the generated SRS was altered ("none": not at all)
    nu,          \* SRS::update: the toxic waste of the running or last update
    nu_product,  \* the product of the toxic waste of all updates so far
    updates,     \* the number of updates completed
    old_g1_point, \* SRS::update: the saved g1s[1]
    nu_powers,   \* SRS::update: powers(nu, n)
    pending,     \* SRS::update: the indices the parallel loop has yet to do
    update_proof, \* the UpdateProof returned by the last update
    rho,         \* SRS::verify_structure: the batching scalar drawn from OsRng
    structure,   \* SRS::verify_structure: "ok" or the assertion that failed
    fs,          \* the file system: path |-> the bytes of the file
    written,     \* the object handed to write_to_file
    read_back,   \* what read_from_file returned
    listing,     \* the entries of ./proofs in the order read_dir yields them
    proof_files, \* what open_update_proof_dirs returned
    nus,         \* the toxic waste of the contributions so far, in order
    chain_tamper, \* the proof file altered after the ceremony ("none": none)
    last_srs_path, \* verify_chain: the path of the SRS it is given
    first_g1_point, \* verify_chain: the point of ./filecoin_srs_g1_point
    last_g1_point, \* verify_chain: g1s[1] of the SRS file
    chain_of_proofs, \* verify_chain: the proofs read, in store order
    chain_g,     \* verify_chain: the running point g
    link,        \* verify_chain: the number of the proof the loop is at
    chain_result, \* verify_chain: "ok" or the assertion that failed
    old_srs_path, \* update: the path the command is given
    new_paths,   \* update: (new_srs_path, new_proof_path) of derive_new_path
    written_calls, \* SRS::write_to_file: the write_all calls that returned
    created,     \* update: the paths this run has created
    args_round,  \* drand_verifier: --round
    args_salt,   \* drand_verifier: --salt, decoded
    args_commitment, \* drand_verifier: --commitment, decoded
    args_verify_chain, \* drand_verifier: --verify-chain
    drand_response, \* drand_verifier: the signature of the fetched round
    drand_scalar, \* drand_verifier: the scalar derived from signature and salt
    last_proof,  \* drand_verifier: the last proof of the store
    drand_steps, \* drand_verifier: the steps performed so far, in order
    ext_srs,     \* srs_consistency: the ExtendedSRS (g1s_coeff, g1s_lagrange, k)
    random_poly, \* check_consistency: the polynomial sampled, then its FFT
    com_coeff,   \* check_consistency: the commitment in coefficient form
    com_lagrange, \* check_consistency: the commitment in Lagrange form
    fil_k,       \* extract_g1_point_from_filecoin_srs: k
    fil_g1s      \* extract_g1_point_from_filecoin_srs: the points g1s

schnorrVars == <<sch_g, sch_h, sch_x, sch_r, sch_proof, ver_g, ver_h, ver_proof,
                 tampered, accepted>>
srsVars == <<srs, srs_old, tau, corruption, nu, nu_product, updates, old_g1_point,
             nu_powers, pending, update_proof, rho, structure>>
serdeVars == <<written, read_back>>
storeVars == <<listing, proof_files>>
chainVars == <<nus, chain_tamper, last_srs_path, first_g1_point, last_g1_point,
               chain_of_proofs, chain_g, link, chain_result>>
updateVars == <<old_srs_path, new_paths, written_calls, created>>
drandVars == <<args_round, args_salt, args_commitment, args_verify_chain,
               drand_response, drand_scalar, last_proof, drand_steps>>
fftVars == <<ext_srs, random_poly, com_coeff, com_lagrange, fil_k, fil_g1s>>
vars == <<pc, schnorrVars, srsVars, fs, serdeVars, storeVars, chainVars, updateVars,
          drandVars, fftVars>>

\* What the steps of one part of the program leave alone.
otherThanSchnorr == <<srsVars, fs, serdeVars, storeVars, chainVars, updateVars, drandVars, fftVars>>
otherThanSrs == <<schnorrVars, fs, serdeVars, storeVars, chainVars, updateVars, drandVars, fftVars>>
otherThanSerde == <<schnorrVars, srsVars, storeVars, chainVars, updateVars, drandVars, fftVars>>
otherThanStore == <<schnorrVars, srsVars, serdeVars, chainVars, updateVars, drandVars, fftVars>>
otherThanChain == <<schnorrVars, serdeVars, storeVars, srs_old, corruption, nu,
                    old_g1_point, nu_powers, pending, update_proof, rho, structure,
                    updateVars, drandVars, fftVars>>
otherThanUpdate == <<schnorrVars, serdeVars, storeVars, chainVars, srs_old, tau,
                     corruption, nu_product, updates, nu_powers, pending, rho,
                     structure, drandVars, fftVars>>
otherThanDrand == <<schnorrVars, srsVars, fs, serdeVars, storeVars, chainVars,
                    updateVars, fftVars>>
otherThanConsistency == <<schnorrVars, srsVars, fs, serdeVars, storeVars, chainVars,
                          updateVars, drandVars, fil_k, fil_g1s>>
otherThanFilecoin == <<schnorrVars, srsVars, serdeVars, storeVars, chainVars,
                       updateVars, drandVars, ext_srs, random_poly, com_coeff,
                       com_lagrange>>

(***************************************************************************)
(* Bounds of the model.                                                    *)
(***************************************************************************)
\* The scalar field is the smallest prime field with at least this many elements.
MinFieldOrder == 5

IsPrime(n) ==
    n > 1 /\ \A d \in 2..(n - 1) : n % d # 0

FieldOrder ==
    CHOOSE p \in MinFieldOrder..(2 * MinFieldOrder) :
        IsPrime(p) /\ \A m \in MinFieldOrder..(p - 1) : ~IsPrime(m)

\* An SRS holds 2..MaxLen G1 points.
MaxLen == 3

\* At most this many updates follow one another.
MaxUpdates == 2

\* A serialised SRS holds 0..MaxSerdeLen G1 points.
MaxSerdeLen == 2

\* The proof directory of the store specification holds at most this many entries.
MaxDirEntries == 3

(***************************************************************************)
(* Field and group primitives (blstrs / halo2curves).                      *)
(***************************************************************************)
Scalar == 0..(FieldOrder - 1)
G1Affine == 0..(FieldOrder - 1)
G2Affine == 0..(FieldOrder - 1)

ScalarONE == 1 % FieldOrder
G1identity == 0
G1generator == 1 % FieldOrder
G2identity == 0
G2generator == 1 % FieldOrder

\* Scalar arithmetic: `*` and `+` on blstrs::Scalar.
ScalarMul(a, b) == (a * b) % FieldOrder
ScalarAdd(a, b) == (a + b) % FieldOrder
ScalarSub(a, b) == (a - b + FieldOrder) % FieldOrder

\* point * scalar and point + point on G1 and G2 (followed by to_affine).
G1Mul(p, s) == (p * s) % FieldOrder
G1Add(p, q) == (p + q) % FieldOrder
G1Sub(p, q) == (p - q + FieldOrder) % FieldOrder
G2Mul(p, s) == (p * s) % FieldOrder

\* pairing(&p, &q): the bilinear map, e(aP, bQ) = e(P, Q)^(ab).
pairing(p, q) == (p * q) % FieldOrder

\* s^n by repeated multiplication (the mathematical power, used to state claims).
RECURSIVE ScalarPow(_, _)
ScalarPow(s, n) ==
    IF n = 0 THEN ScalarONE ELSE ScalarMul(s, ScalarPow(s, n - 1))

\* The product of a sequence of scalars.
RECURSIVE ScalarProduct(_)
ScalarProduct(ss) ==
    IF ss = <<>> THEN ScalarONE ELSE ScalarMul(Head(ss), ScalarProduct(Tail(ss)))

\* The multiplicative inverse of a nonzero scalar.
ScalarInv(s) ==
    CHOOSE t \in Scalar : ScalarMul(s, t) = ScalarONE

(***************************************************************************)
(* utils.rs: powers, raw encodings, hash_points.                           *)
(***************************************************************************)
G1_SIZE == 96
G2_SIZE == 192
SCALAR_SIZE == 32

Byte == 0..255
\* What a failed parse yields in place of a point or scalar, and what a
\* read_from_file that panicked yields in place of an object.
None == 0 - 1
Panicked == [panicked |-> TRUE]

\* powers(s, n): iter::successors(Some(ONE), |p| Some(p * s)).take(n).
RECURSIVE powers_from(_, _, _)
powers_from(p, s, n) ==
    IF n = 0 THEN <<>> ELSE <<p>> \o powers_from(ScalarMul(p, s), s, n - 1)

\* The slip of starting the successors at s instead of ONE.
powers_shifted(s, n) ==
    powers_from(s, s, n)

powers(s, n) ==
    powers_from(ScalarONE, s, n)

\* The k-th byte, counted from the last, of the big-endian form of v < 2^32.
BigEndianByte(v, k) ==
    IF k > 3 THEN 0 ELSE (v \div (256 ^ k)) % 256

\* A fixed-width big-endian encoding of v in `size` bytes; the point at
\* infinity carries a flag bit in its first byte.
FixedWidth(v, size, infinity) ==
    [i \in 1..size |->
        IF i = 1 /\ infinity THEN 64 ELSE BigEndianByte(v, size - i)]

\* G1Affine::to_raw_bytes / G2Affine::to_raw_bytes / Scalar::to_bytes_be.
G1_to_raw_bytes(p) == FixedWidth(p, G1_SIZE, p = G1identity)
G2_to_raw_bytes(p) == FixedWidth(p, G2_SIZE, p = G2identity)
Scalar_to_bytes_be(s) == FixedWidth(s, SCALAR_SIZE, FALSE)

\* read_g1_point: G1Affine::from_raw_bytes(bytes).expect(..); None is the panic.
read_g1_point(bytes) ==
    IF \E p \in G1Affine : G1_to_raw_bytes(p) = bytes
    THEN CHOOSE p \in G1Affine : G1_to_raw_bytes(p) = bytes
    ELSE None

read_g2_point(bytes) ==
    IF \E p \in G2Affine : G2_to_raw_bytes(p) = bytes
    THEN CHOOSE p \in G2Affine : G2_to_raw_bytes(p) = bytes
    ELSE None

\* Scalar::from_bytes_be(bytes).expect(..): rejects a non-canonical encoding.
Scalar_from_bytes_be(bytes) ==
    IF \E s \in Scalar : Scalar_to_bytes_be(s) = bytes
    THEN CHOOSE s \in Scalar : Scalar_to_bytes_be(s) = bytes
    ELSE None

\* Blake2b512 over a byte string: a 64-byte digest, here a number below 2^16
\* obtained by absorbing the bytes lo..hi one after the other, in order.
RECURSIVE Absorb(_, _, _, _)
Absorb(acc, bytes, lo, hi) ==
    IF lo > hi THEN acc
    ELSE IF lo = hi THEN (acc * 31 + bytes[lo] + 7) % 65521
    ELSE LET mid  == (lo + hi) \div 2
             left == Absorb(acc, bytes, lo, mid)
         IN  IF left >= 0 THEN Absorb(left, bytes, mid + 1, hi) ELSE left

Blake2b512(bytes) ==
    Absorb(1, bytes, 1, Len(bytes))

\* The concatenation of the raw encodings of a sequence of G1 points.
RECURSIVE RawBytesOfPoints(_)
RawBytesOfPoints(points) ==
    IF points = <<>> THEN <<>>
    ELSE G1_to_raw_bytes(Head(points)) \o RawBytesOfPoints(Tail(points))

\* hash_points::<Blake2b512>(points): update with each point's raw bytes in order.
hash_points(points) ==
    Blake2b512(RawBytesOfPoints(points))

\* Scalar::from_uniform_bytes: the digest reduced modulo the field order.
Scalar_from_uniform_bytes(digest) ==
    digest % FieldOrder

(***************************************************************************)
(* schnorr.rs: SchnorrProof.                                               *)
(***************************************************************************)
\* The Fiat-Shamir challenge of prove and verify: the hash of [g, h, a].
Challenge(g, h, a) ==
    Scalar_from_uniform_bytes(hash_points(<<g, h, a>>))

\* SchnorrProof::prove(g, h, x) with the nonce r it drew from OsRng.
SchnorrProve(g, h, x, r) ==
    LET a == G1Mul(g, r)
        e == Challenge(g, h, a)
        z == ScalarAdd(r, ScalarMul(x, e))
    IN  [a |-> a, z |-> z]

\* The slip of hashing the points as [h, g, a] in verify.
SchnorrVerifySwapped(proof, g, h) ==
    LET e == Challenge(h, g, proof.a)
    IN  G1Mul(g, proof.z) = G1Add(G1Mul(h, e), proof.a)

\* The slip of leaving the commitment a out of the verification equation.
SchnorrVerifyNoCommitment(proof, g, h) ==
    LET e == Challenge(g, h, proof.a)
    IN  G1Mul(g, proof.z) = G1Mul(h, e)

\* SchnorrProof::verify(&self, g, h): TRUE when assert_eq!(g * z, h * e + a) passes.
SchnorrVerify(proof, g, h) ==
    LET e == Challenge(g, h, proof.a)
    IN  G1Mul(g, proof.z) = G1Add(G1Mul(h, e), proof.a)

\* UpdateProof::create(g, h, x) with the nonce r of its Schnorr proof.
UpdateProofCreate(g, h, x, r) ==
    [g |-> g, h |-> h, schnorr_proof |-> SchnorrProve(g, h, x, r)]

\* UpdateProof::verify(&self).
UpdateProofVerify(proof) ==
    SchnorrVerify(proof.schnorr_proof, proof.g, proof.h)

(***************************************************************************)
(* ceremony.rs: SRS.  g1s[i] of the source is At(g1s, i) here.             *)
(***************************************************************************)
At(seq, i) == seq[i + 1]

\* msm_best(scalars, points): the sum of points[i] * scalars[i].
RECURSIVE msm_best(_, _)
msm_best(scalars, points) ==
    IF scalars = <<>> THEN G1identity
    ELSE G1Add(G1Mul(Head(points), Head(scalars)),
               msm_best(Tail(scalars), Tail(points)))

\* SRS::generate(n, rng) with the tau it drew (test only).
SRS_generate(n, t) ==
    LET tau_powers == powers(t, n)
    IN  [g1s |-> [i \in 1..n |-> G1Mul(G1generator, tau_powers[i])],
         g2s |-> <<G2generator, G2Mul(G2generator, t)>>]

\* The batched pairing check of verify_structure with the scalar r it drew.
BatchedPairingCheck(s, r) ==
    LET n == Len(s.g1s)
        r_powers == powers(r, n - 1)
        batched_lhs_g1 == msm_best(r_powers, SubSeq(s.g1s, 1, n - 1))
        batched_rhs_g1 == msm_best(r_powers, SubSeq(s.g1s, 2, n))
    IN  pairing(batched_lhs_g1, At(s.g2s, 1)) = pairing(batched_rhs_g1, At(s.g2s, 0))

\* The slip of not asserting that g2s[1] differs from g2s[0].
verify_structure_no_g2_generator_check(s, r) ==
    IF \E i \in 1..Len(s.g1s) : s.g1s[i] = G1identity THEN "Some G1 point is zero"
    ELSE IF At(s.g1s, 0) # G1generator THEN "Expected G1 generator"
    ELSE IF At(s.g2s, 0) # G2generator THEN "Expected G2 generator"
    ELSE IF At(s.g2s, 1) = G2identity THEN "Scaled G2 point is zero"
    ELSE IF ~BatchedPairingCheck(s, r) THEN "pairing"
    ELSE "ok"

\* SRS::verify_structure(&self) with the scalar r it drew: "ok", or the
\* assertion that panicked.
verify_structure(s, r) ==
    IF \E i \in 1..Len(s.g1s) : s.g1s[i] = G1identity THEN "Some G1 point is zero"
    ELSE IF At(s.g1s, 0) # G1generator THEN "Expected G1 generator"
    ELSE IF At(s.g2s, 0) # G2generator THEN "Expected G2 generator"
    ELSE IF At(s.g2s, 1) = G2identity THEN "Scaled G2 point is zero"
    ELSE IF At(s.g2s, 1) = At(s.g2s, 0) THEN "Scaled G2 point is the generator"
    ELSE IF ~BatchedPairingCheck(s, r) THEN "pairing"
    ELSE "ok"

\* The slip of a step that scales the point before its own, which another
\* step writes.
update_point_from_neighbour(s, i, power) ==
    [s EXCEPT !.g1s[i + 1] = G1Mul(s.g1s[IF i = 0 THEN 1 ELSE i], power)]

\* The body of the parallel loop of SRS::update for index i:
\* *point = (*point * power).to_affine().
update_point(s, i, power) ==
    [s EXCEPT !.g1s[i + 1] = G1Mul(@, power)]

\* The slip of leaving g2s[1] as it is.
update_g2_skipped(s, v) ==
    s

\* self.g2s[1] = (self.g2s[1] * nu).to_affine().
update_g2(s, v) ==
    [s EXCEPT !.g2s[2] = G2Mul(@, v)]

(***************************************************************************)
(* (De-)serialisation: ceremony.rs and schnorr.rs.  A file is the sequence *)
(* of its bytes.                                                           *)
(***************************************************************************)
\* The bytes of all the chunks of a sequence, in order (successive write_all).
RECURSIVE Concat(_)
Concat(chunks) ==
    IF chunks = <<>> THEN <<>> ELSE Head(chunks) \o Concat(Tail(chunks))

\* The write_all calls of SRS::write_to_file: every g1 point, then g2s[0],
\* then g2s[1].
SRS_write_calls(s) ==
    [i \in 1..Len(s.g1s) |-> G1_to_raw_bytes(s.g1s[i])]
        \o <<G2_to_raw_bytes(At(s.g2s, 0)), G2_to_raw_bytes(At(s.g2s, 1))>>

\* SRS::write_to_file: the file after its last write_all.
SRS_write_to_file(s) ==
    Concat(SRS_write_calls(s))

\* bytes[..offset].par_chunks(G1_SIZE): the last chunk may be shorter.
Chunks(bytes, size) ==
    [i \in 1..((Len(bytes) + size - 1) \div size) |->
        SubSeq(bytes, (i - 1) * size + 1,
               IF i * size <= Len(bytes) THEN i * size ELSE Len(bytes))]

\* The slip of taking the G2 points from the front of the file.
SRS_read_from_file_g2_first(bytes) ==
    IF Len(bytes) < 2 * G2_SIZE THEN Panicked
    ELSE LET g1s == [i \in 1..Len(Chunks(SubSeq(bytes, 2 * G2_SIZE + 1, Len(bytes)), G1_SIZE)) |->
                        read_g1_point(Chunks(SubSeq(bytes, 2 * G2_SIZE + 1, Len(bytes)), G1_SIZE)[i])]
             g2a == read_g2_point(SubSeq(bytes, 1, G2_SIZE))
             g2b == read_g2_point(SubSeq(bytes, G2_SIZE + 1, 2 * G2_SIZE))
         IN  IF (\E i \in 1..Len(g1s) : g1s[i] = None) \/ g2a = None \/ g2b = None
             THEN Panicked
             ELSE [g1s |-> g1s, g2s |-> <<g2a, g2b>>]

\* SRS::read_from_file: Panicked when bytes.len() - 2 * G2_SIZE underflows or a
\* point fails to parse.
SRS_read_from_file(bytes) ==
    IF Len(bytes) < 2 * G2_SIZE THEN Panicked
    ELSE LET offset == Len(bytes) - 2 * G2_SIZE
             chunks == Chunks(SubSeq(bytes, 1, offset), G1_SIZE)
             g1s == [i \in 1..Len(chunks) |-> read_g1_point(chunks[i])]
             g2a == read_g2_point(SubSeq(bytes, offset + 1, offset + G2_SIZE))
             g2b == read_g2_point(SubSeq(bytes, offset + G2_SIZE + 1, offset + 2 * G2_SIZE))
         IN  IF (\E i \in 1..Len(g1s) : g1s[i] = None) \/ g2a = None \/ g2b = None
             THEN Panicked
             ELSE [g1s |-> g1s, g2s |-> <<g2a, g2b>>]

\* UpdateProof::write_to_file: a, z, g, h.
UpdateProof_write_to_file(proof) ==
    G1_to_raw_bytes(proof.schnorr_proof.a) \o Scalar_to_bytes_be(proof.schnorr_proof.z)
        \o G1_to_raw_bytes(proof.g) \o G1_to_raw_bytes(proof.h)

\* The slip of reading h before g.
UpdateProof_read_from_file_h_first(bytes) ==
    IF Len(bytes) < 3 * G1_SIZE + SCALAR_SIZE THEN Panicked
    ELSE LET schnorr_point == read_g1_point(SubSeq(bytes, 1, G1_SIZE))
             schnorr_scalar ==
                 Scalar_from_bytes_be(SubSeq(bytes, G1_SIZE + 1, G1_SIZE + SCALAR_SIZE))
             h == read_g1_point(SubSeq(bytes, G1_SIZE + SCALAR_SIZE + 1,
                                       2 * G1_SIZE + SCALAR_SIZE))
             g == read_g1_point(SubSeq(bytes, 2 * G1_SIZE + SCALAR_SIZE + 1,
                                       3 * G1_SIZE + SCALAR_SIZE))
         IN  IF None \in {schnorr_point, schnorr_scalar, g, h} THEN Panicked
             ELSE [g |-> g, h |-> h,
                   schnorr_proof |-> [a |-> schnorr_point, z |-> schnorr_scalar]]

\* UpdateProof::read_from_file: four read_exact, Panicked when one of them or a
\* parse fails; bytes after the fourth are not read.
UpdateProof_read_from_file(bytes) ==
    IF Len(bytes) < 3 * G1_SIZE + SCALAR_SIZE THEN Panicked
    ELSE LET schnorr_point == read_g1_point(SubSeq(bytes, 1, G1_SIZE))
             schnorr_scalar ==
                 Scalar_from_bytes_be(SubSeq(bytes, G1_SIZE + 1, G1_SIZE + SCALAR_SIZE))
             g == read_g1_point(SubSeq(bytes, G1_SIZE + SCALAR_SIZE + 1,
                                       2 * G1_SIZE + SCALAR_SIZE))
             h == read_g1_point(SubSeq(bytes, 2 * G1_SIZE + SCALAR_SIZE + 1,
                                       3 * G1_SIZE + SCALAR_SIZE))
         IN  IF None \in {schnorr_point, schnorr_scalar, g, h} THEN Panicked
             ELSE [g |-> g, h |-> h,
                   schnorr_proof |-> [a |-> schnorr_point, z |-> schnorr_scalar]]

\* read_g1_point_from_file(path, offset): None when the file is too short.
read_g1_point_from_file(bytes, offset) ==
    IF Len(bytes) < offset + G1_SIZE THEN None
    ELSE read_g1_point(SubSeq(bytes, offset + 1, offset + G1_SIZE))

(***************************************************************************)
(* utils.rs: the proof store.  A file name is the sequence of its          *)
(* characters; a path is <<directory, file name>>.                         *)
(***************************************************************************)
DecimalDigits == <<"0", "1", "2", "3", "4", "5", "6", "7", "8", "9">>

IsDigit(c) ==
    \E d \in 1..10 : DecimalDigits[d] = c

DigitValue(c) ==
    (CHOOSE d \in 1..10 : DecimalDigits[d] = c) - 1

\* The characters of file names, in the order of their codes.
Alphabet == <<"+", "-", "0", "1", "2", "3", "4", "5", "6", "7", "8", "9",
              "a", "f", "o", "p", "r", "s", "x">>

CharRank(c) ==
    CHOOSE k \in 1..Len(Alphabet) : Alphabet[k] = c

\* a < b as strings (the order of String::cmp).
RECURSIVE LexLess(_, _)
LexLess(a, b) ==
    IF b = <<>> THEN FALSE
    ELSE IF a = <<>> THEN TRUE
    ELSE IF Head(a) # Head(b) THEN CharRank(Head(a)) < CharRank(Head(b))
    ELSE LexLess(Tail(a), Tail(b))

ProofPrefix == <<"p", "r", "o", "o", "f">>
SrsPrefix == <<"s", "r", "s">>

\* file_name.strip_prefix("proof"): whether it is Some, and the rest of the name.
has_prefix(name, prefix) ==
    Len(name) >= Len(prefix) /\ SubSeq(name, 1, Len(prefix)) = prefix

strip_prefix(name, prefix) ==
    SubSeq(name, Len(prefix) + 1, Len(name))

\* The value of a sequence of decimal digits.
RECURSIVE DigitsValue(_)
DigitsValue(digits) ==
    IF digits = <<>> THEN 0
    ELSE 10 * DigitsValue(SubSeq(digits, 1, Len(digits) - 1))
         + DigitValue(digits[Len(digits)])

\* s.parse::<usize>().ok(): decimal digits after an optional "+"; None for
\* the empty string, a lone sign and any other character.
parse_usize(str) ==
    LET digits == IF str # <<>> /\ Head(str) = "+" THEN Tail(str) ELSE str
    IN  IF digits = <<>> \/ \E k \in 1..Len(digits) : ~IsDigit(digits[k])
        THEN None
        ELSE DigitsValue(digits)

\* The number of an entry of ./proofs: strip_prefix("proof").and_then(parse).
proof_number(name) ==
    IF has_prefix(name, ProofPrefix)
    THEN parse_usize(strip_prefix(name, ProofPrefix))
    ELSE None

\* format!("{n}"): the decimal digits of n.
RECURSIVE format_usize(_)
format_usize(n) ==
    IF n < 10 THEN <<DecimalDigits[n + 1]>>
    ELSE format_usize(n \div 10) \o <<DecimalDigits[(n % 10) + 1]>>

\* The entries of a listing with a number, as (number, entry) pairs, in the
\* order of the listing (the loop over open_dir).
RECURSIVE numbered_entries(_)
numbered_entries(entries) ==
    IF entries = <<>> THEN <<>>
    ELSE LET number == proof_number(Head(entries))
         IN  (IF number = None THEN <<>> ELSE << <<number, Head(entries)>> >>)
                 \o numbered_entries(Tail(entries))

\* The slip of ordering the pairs by file name.
RECURSIVE insert_by_name(_, _)
insert_by_name(sorted, pair) ==
    IF sorted = <<>> THEN <<pair>>
    ELSE IF ~LexLess(pair[2], sorted[Len(sorted)][2]) THEN Append(sorted, pair)
    ELSE Append(insert_by_name(SubSeq(sorted, 1, Len(sorted) - 1), pair),
                sorted[Len(sorted)])

\* One step of a stable insertion sort by the number of a pair.
RECURSIVE insert_by_key(_, _)
insert_by_key(sorted, pair) ==
    IF sorted = <<>> THEN <<pair>>
    ELSE IF sorted[Len(sorted)][1] <= pair[1] THEN Append(sorted, pair)
    ELSE Append(insert_by_key(SubSeq(sorted, 1, Len(sorted) - 1), pair),
                sorted[Len(sorted)])

\* proof_files.sort_by_key(|&(num, _)| num): a stable sort.
RECURSIVE sort_by_key(_)
sort_by_key(pairs) ==
    IF pairs = <<>> THEN <<>>
    ELSE insert_by_key(sort_by_key(SubSeq(pairs, 1, Len(pairs) - 1)), pairs[Len(pairs)])

\* open_update_proof_dirs() on the listing read_dir yields: the entries with
\* a number, sorted by it.
open_update_proof_dirs(entries) ==
    LET sorted == sort_by_key(numbered_entries(entries))
    IN  [k \in 1..Len(sorted) |-> sorted[k][2]]

\* SRS::update(nu) run to its end: every index of the loop, then g2s[1].
RECURSIVE update_points(_, _, _)
update_points(s, nu_pows, i) ==
    IF i = Len(s.g1s) THEN s
    ELSE update_points(update_point(s, i, At(nu_pows, i)), nu_pows, i + 1)

SRS_update(s, v) ==
    update_g2(update_points(s, powers(v, Len(s.g1s)), 0), v)

\* derive_new_path(old_path) when proofs/ holds `count` entries: the paths of
\* the new SRS, beside the old one, and of the new proof.
derive_new_path(old_path, count) ==
    LET n == count + 1
    IN  [new_srs_path |-> <<old_path[1], SrsPrefix \o format_usize(n)>>,
         new_proof_path |-> <<"proofs", ProofPrefix \o format_usize(n)>>]

(***************************************************************************)
(* main.rs: verify_chain.                                                  *)
(***************************************************************************)
\* The slip of not asserting proof.g != proof.h.
link_check_without_ne(proof, g) ==
    IF proof.g # g THEN "assert_eq!(proof.g, g)"
    ELSE IF ~UpdateProofVerify(proof) THEN "proof.verify()"
    ELSE "ok"

\* The body of the loop of verify_chain for one proof: "ok", or the
\* assertion that panicked.
link_check(proof, g) ==
    IF proof.g # g THEN "assert_eq!(proof.g, g)"
    ELSE IF proof.g = proof.h THEN "assert_ne!(proof.g, proof.h)"
    ELSE IF ~UpdateProofVerify(proof) THEN "proof.verify()"
    ELSE "ok"

(***************************************************************************)
(* SpecSchnorr: prove, an optional replacement of one of (g, h, a, z), and *)
(* verify.                                                                 *)
(***************************************************************************)
Unset == "unset"

\* The parts of the state a specification does not use stay unset.
SchnorrIdle ==
    /\ sch_g = Unset /\ sch_h = Unset /\ sch_x = Unset /\ sch_r = Unset
    /\ sch_proof = Unset /\ ver_g = Unset /\ ver_h = Unset /\ ver_proof = Unset
    /\ tampered = Unset /\ accepted = Unset

FsIdle ==
    fs = Unset

SerdeIdle ==
    written = Unset /\ read_back = Unset

StoreIdle ==
    listing = Unset /\ proof_files = Unset

ChainIdle ==
    /\ nus = Unset /\ chain_tamper = Unset /\ last_srs_path = Unset
    /\ first_g1_point = Unset /\ last_g1_point = Unset /\ chain_of_proofs = Unset
    /\ chain_g = Unset /\ link = Unset /\ chain_result = Unset

FftIdle ==
    /\ ext_srs = Unset /\ random_poly = Unset /\ com_coeff = Unset
    /\ com_lagrange = Unset /\ fil_k = Unset /\ fil_g1s = Unset

DrandIdle ==
    /\ args_round = Unset /\ args_salt = Unset /\ args_commitment = Unset
    /\ args_verify_chain = Unset /\ drand_response = Unset /\ drand_scalar = Unset
    /\ last_proof = Unset /\ drand_steps = Unset

UpdateIdle ==
    /\ old_srs_path = Unset /\ new_paths = Unset /\ written_calls = Unset
    /\ created = Unset

SrsIdle ==
    /\ srs = Unset /\ srs_old = Unset /\ tau = Unset /\ corruption = Unset
    /\ nu = Unset /\ nu_product = Unset /\ updates = Unset
    /\ old_g1_point = Unset /\ nu_powers = Unset /\ pending = Unset
    /\ update_proof = Unset /\ rho = Unset /\ structure = Unset

\* The caller's arguments: h = g * x (the honest prover of UpdateProof::create)
\* or a different point.
InitSchnorr ==
    /\ pc = "prove"
    /\ sch_g \in G1Affine
    /\ sch_x \in Scalar
    /\ sch_h \in {G1Mul(sch_g, sch_x), G1Add(G1Mul(sch_g, sch_x), G1generator)}
    /\ sch_r = Unset /\ sch_proof = Unset
    /\ ver_g = Unset /\ ver_h = Unset /\ ver_proof = Unset
    /\ tampered = Unset /\ accepted = Unset
    /\ SrsIdle /\ FsIdle /\ SerdeIdle /\ StoreIdle /\ ChainIdle /\ UpdateIdle /\ DrandIdle /\ FftIdle

Prove ==
    /\ pc = "prove"
    /\ \E r \in Scalar :
        /\ sch_r' = r
        /\ sch_proof' = SchnorrProve(sch_g, sch_h, sch_x, r)
    /\ ver_g' = sch_g
    /\ ver_h' = sch_h
    /\ ver_proof' = sch_proof'
    /\ tampered' = "none"
    /\ pc' = "proved"
    /\ UNCHANGED <<sch_g, sch_h, sch_x, accepted>>
    /\ UNCHANGED otherThanSchnorr

\* One of g, h, a, z is replaced by a different value before verification.
Tamper ==
    /\ pc = "proved"
    /\ tampered = "none"
    /\ \/ \E p \in G1Affine \ {ver_g} :
            /\ ver_g' = p /\ tampered' = "g" /\ UNCHANGED <<ver_h, ver_proof>>
       \/ \E p \in G1Affine \ {ver_h} :
            /\ ver_h' = p /\ tampered' = "h" /\ UNCHANGED <<ver_g, ver_proof>>
       \/ \E p \in G1Affine \ {ver_proof.a} :
            /\ ver_proof' = [ver_proof EXCEPT !.a = p]
            /\ tampered' = "a" /\ UNCHANGED <<ver_g, ver_h>>
       \/ \E s \in Scalar \ {ver_proof.z} :
            /\ ver_proof' = [ver_proof EXCEPT !.z = s]
            /\ tampered' = "z" /\ UNCHANGED <<ver_g, ver_h>>
    /\ UNCHANGED <<pc, sch_g, sch_h, sch_x, sch_r, sch_proof, accepted>>
    /\ UNCHANGED otherThanSchnorr

Verify ==
    /\ pc = "proved"
    /\ accepted' = SchnorrVerify(ver_proof, ver_g, ver_h)
    /\ pc' = "verified"
    /\ UNCHANGED <<sch_g, sch_h, sch_x, sch_r, sch_proof, ver_g, ver_h, ver_proof,
                   tampered>>
    /\ UNCHANGED otherThanSchnorr

NextSchnorr ==
    Prove \/ Tamper \/ Verify

SpecSchnorr ==
    InitSchnorr /\ [][NextSchnorr]_vars

\* The prover of the claims: h = g * x.
HonestProver ==
    sch_h = G1Mul(sch_g, sch_x)

\* The challenge of the proof as produced, and the one verify recomputes.
ProvedChallenge ==
    Challenge(sch_g, sch_h, sch_proof.a)

VerifiedChallenge ==
    Challenge(ver_g, ver_h, ver_proof.a)

\* C5: the proof (a, z) = (g*r, r + x*e), e = FS(g, h, a), that prove(g, h, x)
\* returns for h = g*x and any nonce r is accepted by verify(g, h).
C5_Completeness ==
    (pc = "verified" /\ tampered = "none" /\ HonestProver) =>
        /\ sch_proof.a = G1Mul(sch_g, sch_r)
        /\ sch_proof.z = ScalarAdd(sch_r, ScalarMul(sch_x, ProvedChallenge))
        /\ accepted = TRUE

C5_Witness ==
    /\ pc = "verified" /\ tampered = "none" /\ HonestProver
    /\ sch_g # G1identity /\ sch_x \notin {0, 1} /\ sch_r # 0
    /\ ProvedChallenge # 0
    /\ accepted = TRUE

\* C6 as stated: after replacing any one of g, h, a, z of an honest proof by a
\* different value, verify fails.
C6_AnyReplacementFails ==
    (pc = "verified" /\ tampered \in {"g", "h", "a", "z"} /\ HonestProver) =>
        accepted = FALSE

\* C6 amended: a replaced z is rejected exactly when g is not the identity; a
\* replaced g, h or a is rejected unless the challenge e' recomputed from the
\* changed (g, h, a) makes up for the change: (g' - g)*z = h*(e' - e) for g,
\* h'*e' = h*e for h, h*(e - e') = a' - a for a (never with e' = e).
C6_ReplacementFailsUnless ==
    (pc = "verified" /\ tampered \in {"g", "h", "a", "z"} /\ HonestProver) =>
        LET e  == ProvedChallenge
            e2 == VerifiedChallenge
        IN  /\ tampered = "z" => (accepted = (ver_g = G1identity))
            /\ tampered = "a" =>
                 /\ accepted = (G1Mul(sch_h, ScalarSub(e, e2))
                                  = G1Sub(ver_proof.a, sch_proof.a))
                 /\ e2 = e => accepted = FALSE
            /\ tampered = "h" =>
                 accepted = (G1Mul(ver_h, e2) = G1Mul(sch_h, e))
            /\ tampered = "g" =>
                 accepted = (G1Mul(G1Sub(ver_g, sch_g), sch_proof.z)
                               = G1Mul(sch_h, ScalarSub(e2, e)))

\* A replaced z on a non-identity g, rejected.
C6_Witness ==
    /\ pc = "verified" /\ tampered = "z" /\ HonestProver
    /\ sch_g # G1identity /\ sch_x # 0
    /\ accepted = FALSE

(***************************************************************************)
(* SpecSrs: an SRS is generated, possibly altered, updated (the parallel   *)
(* loop of SRS::update one index at a time, in any order) and verified, as *)
(* the tests of ceremony.rs do.                                            *)
(***************************************************************************)
SrsLengths == 2..MaxLen
\* The nonces of the Schnorr proof of an update (SchnorrSpec draws them all).
Nonces == {0, ScalarONE}

InitSrs ==
    /\ pc = "idle"
    /\ \E n \in SrsLengths, t \in Scalar :
        /\ srs = SRS_generate(n, t)
        /\ tau = t
    /\ srs_old = Unset
    /\ corruption = [kind |-> "none"]
    /\ nu = Unset
    /\ nu_product = ScalarONE
    /\ updates = 0
    /\ old_g1_point = Unset /\ nu_powers = Unset /\ pending = Unset
    /\ update_proof = Unset /\ rho = Unset /\ structure = Unset
    /\ SchnorrIdle /\ FsIdle /\ SerdeIdle /\ StoreIdle /\ ChainIdle /\ UpdateIdle /\ DrandIdle /\ FftIdle

\* The alterations the tests srs_with_wrong_g1s_case1/2 and
\* srs_with_wrong_g2s_case1/2 make to a generated SRS.
Corrupt ==
    /\ pc = "idle"
    /\ corruption.kind = "none"
    /\ updates = 0
    /\ \/ \E k \in 0..(Len(srs.g1s) - 1) :
            /\ srs' = [srs EXCEPT !.g1s[k + 1] = G1identity]
            /\ corruption' = [kind |-> "g1s[k] = identity", k |-> k]
       \/ /\ srs' = [srs EXCEPT !.g1s[2] = G1generator]
          /\ corruption' = [kind |-> "g1s[1] = generator"]
       \/ /\ srs' = [srs EXCEPT !.g2s[2] = G2identity]
          /\ corruption' = [kind |-> "g2s[1] = identity"]
       \/ /\ srs' = [srs EXCEPT !.g2s[2] = G2generator]
          /\ corruption' = [kind |-> "g2s[1] = generator"]
    /\ UNCHANGED <<pc, srs_old, tau, nu, nu_product, updates, old_g1_point,
                   nu_powers, pending, update_proof, rho, structure>>
    /\ UNCHANGED otherThanSrs

\* SRS::update, up to the parallel loop.
UpdateBegin ==
    /\ pc = "idle"
    /\ updates < MaxUpdates
    /\ \E v \in Scalar :
        /\ nu' = v
        /\ nu_powers' = powers(v, Len(srs.g1s))
    /\ srs_old' = srs
    /\ old_g1_point' = At(srs.g1s, 1)
    /\ pending' = 0..(Len(srs.g1s) - 1)
    /\ pc' = "updating"
    /\ UNCHANGED <<srs, tau, corruption, nu_product, updates, update_proof, rho,
                   structure>>
    /\ UNCHANGED otherThanSrs

\* One index of the parallel loop, whichever the scheduler takes next.
UpdatePoint ==
    /\ pc = "updating"
    /\ \E i \in pending :
        /\ srs' = update_point(srs, i, At(nu_powers, i))
        /\ pending' = pending \ {i}
    /\ UNCHANGED <<pc, srs_old, tau, corruption, nu, nu_product, updates,
                   old_g1_point, nu_powers, update_proof, rho, structure>>
    /\ UNCHANGED otherThanSrs

\* After the loop has joined: g2s[1] is scaled.
UpdateG2 ==
    /\ pc = "updating"
    /\ pending = {}
    /\ srs' = update_g2(srs, nu)
    /\ pc' = "scaled"
    /\ UNCHANGED <<srs_old, tau, corruption, nu, nu_product, updates, old_g1_point,
                   nu_powers, pending, update_proof, rho, structure>>
    /\ UNCHANGED otherThanSrs

\* UpdateProof::create(old_g1_point, self.g1s[1], nu) is returned.
UpdateReturn ==
    /\ pc = "scaled"
    /\ \E r \in Nonces :
        update_proof' = UpdateProofCreate(old_g1_point, At(srs.g1s, 1), nu, r)
    /\ updates' = updates + 1
    /\ nu_product' = ScalarMul(nu_product, nu)
    /\ pc' = "idle"
    /\ UNCHANGED <<srs, srs_old, tau, corruption, nu, old_g1_point, nu_powers,
                   pending, rho, structure>>
    /\ UNCHANGED otherThanSrs

\* srs.verify_structure() with the batching scalar it draws.
VerifyStructure ==
    /\ pc = "idle"
    /\ \E r \in Scalar :
        /\ rho' = r
        /\ structure' = verify_structure(srs, r)
    /\ pc' = "verified"
    /\ UNCHANGED <<srs, srs_old, tau, corruption, nu, nu_product, updates,
                   old_g1_point, nu_powers, pending, update_proof>>
    /\ UNCHANGED otherThanSrs

NextSrs ==
    Corrupt \/ UpdateBegin \/ UpdatePoint \/ UpdateG2 \/ UpdateReturn \/ VerifyStructure

SpecSrs ==
    InitSrs /\ [][NextSrs]_vars

\* The SRS of the secret t: g1s[i] = [t^i]_1 and g2s = ([1]_2, [t]_2).
HasSecret(s, t) ==
    /\ \A i \in 0..(Len(s.g1s) - 1) : At(s.g1s, i) = G1Mul(G1generator, ScalarPow(t, i))
    /\ s.g2s = <<G2generator, G2Mul(G2generator, t)>>

\* A valid SRS: one of a secret other than 0 and 1.
ValidSecret(t) ==
    t \notin {0, ScalarONE}

\* An update has returned and nothing has happened since.
UpdateReturned ==
    pc = "idle" /\ updates > 0

\* C3: update(nu) replaces g1s[i] by g1s[i]*nu^i for every i in [0, N), g2s[1]
\* by g2s[1]*nu, leaves g2s[0] and N unchanged and returns a proof whose g is
\* the old g1s[1] and whose h is the new g1s[1].
C3_UpdateEffect ==
    UpdateReturned =>
        /\ Len(srs.g1s) = Len(srs_old.g1s)
        /\ \A i \in 0..(Len(srs_old.g1s) - 1) :
            At(srs.g1s, i) = G1Mul(At(srs_old.g1s, i), ScalarPow(nu, i))
        /\ At(srs.g1s, 0) = At(srs_old.g1s, 0)
        /\ At(srs.g2s, 1) = G2Mul(At(srs_old.g2s, 1), nu)
        /\ At(srs.g2s, 0) = At(srs_old.g2s, 0)
        /\ update_proof.g = At(srs_old.g1s, 1)
        /\ update_proof.h = At(srs.g1s, 1)

\* An update that changes every point but g1s[0], of an SRS of the largest length.
C3_Witness ==
    /\ UpdateReturned
    /\ Len(srs.g1s) = MaxLen
    /\ nu \notin {0, ScalarONE}
    /\ \A i \in 1..(Len(srs.g1s) - 1) : At(srs.g1s, i) # At(srs_old.g1s, i)
    /\ At(srs.g2s, 1) # At(srs_old.g2s, 1)
    /\ update_proof.g # update_proof.h

\* The generated SRS was valid and has only been updated, with nonzero scalars.
ValidAndUpdated ==
    /\ corruption.kind = "none"
    /\ ValidSecret(tau)
    /\ updates > 0
    /\ nu_product # 0

CorruptedValid ==
    /\ pc = "verified"
    /\ corruption.kind # "none"
    /\ ValidSecret(tau)
    /\ updates = 0

TestPath == "/tmp/test"

SerdeLengths == 0..MaxSerdeLen

InitSerde ==
    /\ pc = "write"
    /\ \/ \E n \in SerdeLengths :
            \E g1s \in [1..n -> G1Affine], g2s \in [1..2 -> G2Affine] :
                written = [kind |-> "SRS", value |-> [g1s |-> g1s, g2s |-> g2s]]
       \/ \E g \in G1Affine, h \in G1Affine, a \in G1Affine, z \in Scalar :
            written = [kind |-> "UpdateProof",
                       value |-> [g |-> g, h |-> h, schnorr_proof |-> [a |-> a, z |-> z]]]
    /\ fs = << >>
    /\ read_back = Unset
    /\ SchnorrIdle /\ SrsIdle /\ StoreIdle /\ ChainIdle /\ UpdateIdle /\ DrandIdle /\ FftIdle

WriteSrs ==
    /\ pc = "write"
    /\ written.kind = "SRS"
    /\ fs' = (TestPath :> SRS_write_to_file(written.value))
    /\ pc' = "read"
    /\ UNCHANGED <<written, read_back>>
    /\ UNCHANGED otherThanSerde

ReadSrs ==
    /\ pc = "read"
    /\ written.kind = "SRS"
    /\ read_back' = SRS_read_from_file(fs[TestPath])
    /\ pc' = "done"
    /\ UNCHANGED <<fs, written>>
    /\ UNCHANGED otherThanSerde

WriteProof ==
    /\ pc = "write"
    /\ written.kind = "UpdateProof"
    /\ fs' = (TestPath :> UpdateProof_write_to_file(written.value))
    /\ pc' = "read"
    /\ UNCHANGED <<written, read_back>>
    /\ UNCHANGED otherThanSerde

ReadProof ==
    /\ pc = "read"
    /\ written.kind = "UpdateProof"
    /\ read_back' = UpdateProof_read_from_file(fs[TestPath])
    /\ pc' = "done"
    /\ UNCHANGED <<fs, written>>
    /\ UNCHANGED otherThanSerde

NextSerde ==
    WriteSrs \/ ReadSrs \/ WriteProof \/ ReadProof

SpecSerde ==
    InitSerde /\ [][NextSerde]_vars

\* The bytes of a file from offset `from` (0-based), `size` of them.
BytesAt(bytes, from, size) ==
    SubSeq(bytes, from + 1, from + size)

\* C8: read_from_file(write_to_file(s)) = s for every SRS s (same g1s in the
\* same order, same g2s), read_from_file(write_to_file(p)) has the a, z, g, h
\* of every UpdateProof p, and the proof file is a, z, g, h in that order.
C8_RoundTrip ==
    /\ pc = "done" => read_back = written.value
    /\ (pc \in {"read", "done"} /\ written.kind = "SRS") =>
         Len(fs[TestPath]) = Len(written.value.g1s) * G1_SIZE + 2 * G2_SIZE
    /\ (pc \in {"read", "done"} /\ written.kind = "UpdateProof") =>
         LET p == written.value
             f == fs[TestPath]
         IN  /\ Len(f) = 3 * G1_SIZE + SCALAR_SIZE
             /\ BytesAt(f, 0, G1_SIZE) = G1_to_raw_bytes(p.schnorr_proof.a)
             /\ BytesAt(f, G1_SIZE, SCALAR_SIZE) = Scalar_to_bytes_be(p.schnorr_proof.z)
             /\ BytesAt(f, G1_SIZE + SCALAR_SIZE, G1_SIZE) = G1_to_raw_bytes(p.g)
             /\ BytesAt(f, 2 * G1_SIZE + SCALAR_SIZE, G1_SIZE) = G1_to_raw_bytes(p.h)

\* An SRS of distinct points, one of them the identity, read back.
C8_WitnessSrs ==
    /\ pc = "done" /\ written.kind = "SRS"
    /\ Len(written.value.g1s) = MaxSerdeLen
    /\ written.value.g1s[1] = G1identity
    /\ written.value.g1s[2] \notin {G1identity, G1generator}
    /\ At(written.value.g2s, 0) # At(written.value.g2s, 1)
    /\ read_back = written.value

\* An UpdateProof of four different values read back.
C8_Witness ==
    /\ pc = "done" /\ written.kind = "UpdateProof"
    /\ Cardinality({written.value.schnorr_proof.a, written.value.schnorr_proof.z,
                     written.value.g, written.value.h}) = 4
    /\ read_back = written.value

(***************************************************************************)
(* SpecStore: ./proofs holds any few of the candidate names; read_dir      *)
(* yields them in any order; open_update_proof_dirs is called.             *)
(***************************************************************************)
ProofsDir == "proofs"

ProofName(suffix) == ProofPrefix \o suffix

CandidateNames ==
    {ProofName(<<"1">>), ProofName(<<"2">>), ProofName(<<"3">>),
     ProofName(<<"1", "0">>), ProofName(<<"0", "2">>), ProofName(<<"+", "3">>),
     ProofName(<<>>), ProofName(<<"x">>), ProofName(<<"-", "1">>),
     ProofName(<<"2", "a">>), SrsPrefix \o <<"1">>}

\* The names of the entries of a directory of the file system.
DirNames(files, dir) ==
    {path[2] : path \in {q \in DOMAIN files : q[1] = dir}}

\* The orders in which read_dir may yield a set of names.
Listings(names) ==
    {l \in [1..Cardinality(names) -> names] : \A n \in names : \E k \in DOMAIN l : l[k] = n}

InitStore ==
    /\ pc = "list"
    /\ \E names \in SUBSET CandidateNames :
        /\ Cardinality(names) <= MaxDirEntries
        /\ fs = [path \in {<<ProofsDir, n>> : n \in names} |-> <<>>]
    /\ listing = Unset
    /\ proof_files = Unset
    /\ SchnorrIdle /\ SrsIdle /\ SerdeIdle /\ ChainIdle /\ UpdateIdle /\ DrandIdle /\ FftIdle

OpenUpdateProofDirs ==
    /\ pc = "list"
    /\ \E l \in Listings(DirNames(fs, ProofsDir)) :
        /\ listing' = l
        /\ proof_files' = open_update_proof_dirs(l)
    /\ pc' = "listed"
    /\ UNCHANGED fs
    /\ UNCHANGED otherThanStore

NextStore ==
    OpenUpdateProofDirs

SpecStore ==
    InitStore /\ [][NextStore]_vars

\* The elements of a sequence.
Range(seq) ==
    {seq[k] : k \in DOMAIN seq}

\* C2: open_update_proof_dirs returns the files named proof<n>, each once,
\* in ascending order of the parsed number n, whatever names the directory
\* holds and in whatever order they are listed.
C2_NumericOrder ==
    pc = "listed" =>
        /\ Range(proof_files) = {n \in DirNames(fs, ProofsDir) : proof_number(n) # None}
        /\ Len(proof_files) = Cardinality(Range(proof_files))
        /\ \A i, j \in DOMAIN proof_files :
            i < j => proof_number(proof_files[i]) <= proof_number(proof_files[j])

\* proof10 listed before proof2, and returned after it.
C2_Witness ==
    /\ pc = "listed"
    /\ \E i, j \in DOMAIN listing :
        i < j /\ listing[i] = ProofName(<<"1", "0">>) /\ listing[j] = ProofName(<<"2">>)
    /\ \E i, j \in DOMAIN proof_files :
        i < j /\ proof_files[i] = ProofName(<<"2">>)
              /\ proof_files[j] = ProofName(<<"1", "0">>)
    /\ Len(proof_files) < Len(listing)

(***************************************************************************)
(* SpecChain: a ceremony of contributions (SRS::update and the two files   *)
(* the update command writes), possibly one altered proof file, and        *)
(* verify_chain, one proof of its loop at a time.                          *)
(***************************************************************************)
FilecoinPath == <<".", <<"filecoin_srs_g1_point">> >>
SrsPath(n) == <<".", SrsPrefix \o format_usize(n)>>
ProofPath(n) == <<ProofsDir, ProofPrefix \o format_usize(n)>>

\* The secrets of the SRS the ceremony starts from: two of those whose SRS
\* passes verify_structure.
StartSecrets == {2, 3}

\* The scalars a contribution draws from: zero, one and an ordinary one.
ChainScalars == {0, ScalarONE, 2}

\* The nonce of the Schnorr proof of a contribution (SpecSchnorr draws them all).
ChainNonces == {ScalarONE}

\* The file system with one more file, or one file replaced.
WithFile(files, path, bytes) ==
    [q \in DOMAIN files \cup {path} |-> IF q = path THEN bytes ELSE files[q]]

InitChain ==
    /\ pc = "ceremony"
    /\ \E t \in StartSecrets :
        /\ tau = t
        /\ srs = SRS_generate(2, t)
    /\ fs = WithFile(WithFile(<< >>, FilecoinPath, G1_to_raw_bytes(At(srs.g1s, 1))),
                     SrsPath(0), SRS_write_to_file(srs))
    /\ nus = <<>>
    /\ nu_product = ScalarONE
    /\ updates = 0
    /\ chain_tamper = [field |-> "none"]
    /\ last_srs_path = Unset /\ first_g1_point = Unset /\ last_g1_point = Unset
    /\ chain_of_proofs = Unset /\ chain_g = Unset /\ link = Unset
    /\ chain_result = Unset
    /\ srs_old = Unset /\ corruption = Unset /\ nu = Unset /\ old_g1_point = Unset
    /\ nu_powers = Unset /\ pending = Unset /\ update_proof = Unset
    /\ rho = Unset /\ structure = Unset
    /\ SchnorrIdle /\ SerdeIdle /\ StoreIdle /\ UpdateIdle /\ DrandIdle /\ FftIdle

\* One contribution: srs.update(&nu), srs.write_to_file(&new_srs_path),
\* proof.write_to_file(&new_proof_path).
Contribute ==
    /\ pc = "ceremony"
    /\ chain_tamper.field = "none"
    /\ updates < MaxUpdates
    /\ \E v \in ChainScalars, r \in ChainNonces :
        LET paths == derive_new_path(SrsPath(updates),
                                     Cardinality(DirNames(fs, ProofsDir)))
            new_srs == SRS_update(srs, v)
            proof == UpdateProofCreate(At(srs.g1s, 1), At(new_srs.g1s, 1), v, r)
        IN  /\ srs' = new_srs
            /\ fs' = WithFile(WithFile(fs, paths.new_srs_path, SRS_write_to_file(new_srs)),
                              paths.new_proof_path, UpdateProof_write_to_file(proof))
            /\ nus' = Append(nus, v)
            /\ nu_product' = ScalarMul(nu_product, v)
    /\ updates' = updates + 1
    /\ UNCHANGED <<pc, tau, chain_tamper, last_srs_path, first_g1_point, last_g1_point,
                   chain_of_proofs, chain_g, link, chain_result>>
    /\ UNCHANGED otherThanChain

\* The proof file of one link with one of its fields replaced.
AlteredProof(i, field, value) ==
    LET proof == UpdateProof_read_from_file(fs[ProofPath(i)])
    IN  CASE field = "h" -> [proof EXCEPT !.h = value]
          [] field = "g" -> [proof EXCEPT !.g = value]
          [] field = "a" -> [proof EXCEPT !.schnorr_proof.a = value]
          [] field = "z" -> [proof EXCEPT !.schnorr_proof.z = value]

\* After the ceremony one field of one proof file is replaced: h by any other
\* point, or g, a or z by the next value.
TamperProof ==
    /\ pc = "ceremony"
    /\ chain_tamper.field = "none"
    /\ \E i \in 1..updates :
        LET proof == UpdateProof_read_from_file(fs[ProofPath(i)])
        IN  \/ \E p \in G1Affine \ {proof.h} :
                 /\ fs' = WithFile(fs, ProofPath(i),
                                   UpdateProof_write_to_file(AlteredProof(i, "h", p)))
                 /\ chain_tamper' = [field |-> "h", link |-> i]
            \/ \E field \in {"g", "a", "z"} :
                 LET old == CASE field = "g" -> proof.g
                              [] field = "a" -> proof.schnorr_proof.a
                              [] field = "z" -> proof.schnorr_proof.z
                 IN  /\ fs' = WithFile(fs, ProofPath(i),
                                UpdateProof_write_to_file(
                                    AlteredProof(i, field, (old + 1) % FieldOrder)))
                     /\ chain_tamper' = [field |-> field, link |-> i]
    /\ UNCHANGED <<pc, srs, tau, nu_product, updates, nus, last_srs_path,
                   first_g1_point, last_g1_point, chain_of_proofs, chain_g, link,
                   chain_result>>
    /\ UNCHANGED otherThanChain

\* The slip of reading the proofs in the order the directory lists them.
ReadChain_unsorted(files, entries) ==
    [k \in 1..Len(entries) |->
        UpdateProof_read_from_file(files[<<ProofsDir, entries[k]>>])]

\* The proofs of the store in store order, as verify_chain reads them.
ReadChain(files, entries) ==
    LET ordered == open_update_proof_dirs(entries)
    IN  [k \in 1..Len(ordered) |->
            UpdateProof_read_from_file(files[<<ProofsDir, ordered[k]>>])]

\* verify_chain up to its loop: the two points and every proof are read. The
\* path given is that of the first or of the last SRS of the ceremony.
VerifyChainRead ==
    /\ pc = "ceremony"
    /\ \E n \in {0, updates}, l \in Listings(DirNames(fs, ProofsDir)) :
        LET first == read_g1_point_from_file(fs[FilecoinPath], 0)
            last == read_g1_point_from_file(fs[SrsPath(n)], G1_SIZE)
            chain == ReadChain(fs, l)
        IN  /\ last_srs_path' = SrsPath(n)
            /\ first_g1_point' = first
            /\ last_g1_point' = last
            /\ chain_of_proofs' = chain
            /\ chain_g' = first
            /\ link' = 1
            /\ IF first = None \/ last = None
                  \/ \E k \in DOMAIN chain : chain[k] = Panicked
               THEN pc' = "panicked" /\ chain_result' = "read"
               ELSE pc' = "chain_loop" /\ chain_result' = Unset
    /\ UNCHANGED <<fs, srs, tau, nu_product, updates, nus, chain_tamper>>
    /\ UNCHANGED otherThanChain

\* One turn of the loop of verify_chain.
VerifyChainLink ==
    /\ pc = "chain_loop"
    /\ link <= Len(chain_of_proofs)
    /\ LET proof == chain_of_proofs[link]
           check == link_check(proof, chain_g)
       IN  IF check = "ok"
           THEN /\ chain_g' = proof.h
                /\ link' = link + 1
                /\ UNCHANGED <<pc, chain_result>>
           ELSE /\ chain_result' = check
                /\ pc' = "panicked"
                /\ UNCHANGED <<chain_g, link>>
    /\ UNCHANGED <<fs, srs, tau, nu_product, updates, nus, chain_tamper,
                   last_srs_path, first_g1_point, last_g1_point, chain_of_proofs>>
    /\ UNCHANGED otherThanChain

\* After the loop: assert_eq!(g, last_g1_point).
VerifyChainEnd ==
    /\ pc = "chain_loop"
    /\ link > Len(chain_of_proofs)
    /\ IF chain_g = last_g1_point
       THEN pc' = "chain_done" /\ chain_result' = "ok"
       ELSE pc' = "panicked" /\ chain_result' = "assert_eq!(g, last_g1_point)"
    /\ UNCHANGED <<fs, srs, tau, nu_product, updates, nus, chain_tamper,
                   last_srs_path, first_g1_point, last_g1_point, chain_of_proofs,
                   chain_g, link>>
    /\ UNCHANGED otherThanChain

NextChain ==
    Contribute \/ TamperProof \/ VerifyChainRead \/ VerifyChainLink \/ VerifyChainEnd

SpecChain ==
    InitChain /\ [][NextChain]_vars

\* The proofs of the store by ascending number, and the two end points.
StoredChain == [k \in 1..updates |-> UpdateProof_read_from_file(fs[ProofPath(k)])]
StartG1 == read_g1_point_from_file(fs[FilecoinPath], 0)
EndG1 == read_g1_point_from_file(fs[last_srs_path], G1_SIZE)

\* The value of g when the walk reaches proof k (k = Len + 1: after the walk).
GBefore(chain, k) == IF k = 1 THEN StartG1 ELSE chain[k - 1].h

LinkHolds(chain, k) ==
    /\ chain[k].g = GBefore(chain, k)
    /\ chain[k].g # chain[k].h
    /\ UpdateProofVerify(chain[k])

ChainHolds(chain) ==
    /\ \A k \in 1..Len(chain) : LinkHolds(chain, k)
    /\ GBefore(chain, Len(chain) + 1) = EndG1

\* C1: verify_chain succeeds exactly when, walking the stored proofs by
\* ascending number from g = start point, every proof has P.g = g,
\* P.g # P.h and a verifying Schnorr proof, g becoming P.h, and the final g
\* is the end point; it panics at the first check that fails, having passed
\* every check before it.
C1_VerifyChainIff ==
    /\ pc \in {"chain_loop", "chain_done", "panicked"} =>
          /\ chain_of_proofs = StoredChain
          /\ link \in 1..(updates + 1)
          /\ \A k \in 1..(link - 1) : LinkHolds(StoredChain, k)
    /\ pc = "chain_done" => chain_result = "ok" /\ ChainHolds(StoredChain)
    /\ pc = "panicked" =>
          /\ chain_result # "ok"
          /\ ~ChainHolds(StoredChain)
          /\ IF link <= updates
             THEN ~LinkHolds(StoredChain, link)
             ELSE GBefore(StoredChain, link) # EndG1

\* verify_chain has accepted a chain of two proofs.
C1_Witness ==
    /\ pc = "chain_done"
    /\ chain_result = "ok"
    /\ Len(chain_of_proofs) >= 2

\* A ceremony from a valid SRS with nonzero scalars, verified against its
\* last SRS file.
VerifiedCeremony ==
    /\ pc \in {"chain_done", "panicked"}
    /\ last_srs_path = SrsPath(updates)
    /\ tau # 0
    /\ \A i \in 1..Len(nus) : nus[i] # 0

NoUnitScalar == \A i \in 1..Len(nus) : nus[i] # ScalarONE

CeremonyFiles(s0, contributions) ==
    LET start == WithFile(WithFile(<< >>, FilecoinPath, G1_to_raw_bytes(At(s0.g1s, 1))),
                          SrsPath(0), SRS_write_to_file(s0))
        v == 2
        s1 == SRS_update(s0, v)
        proof == UpdateProofCreate(At(s0.g1s, 1), At(s1.g1s, 1), v, ScalarONE)
    IN  IF contributions = 0 THEN start
        ELSE WithFile(WithFile(start, SrsPath(1), SRS_write_to_file(s1)),
                      ProofPath(1), UpdateProof_write_to_file(proof))

InitUpdate ==
    /\ pc = "derive_new_path"
    /\ \E t \in StartSecrets, n \in SrsLengths, k \in {0, 1} :
        fs = CeremonyFiles(SRS_generate(n, t), k)
    /\ old_srs_path \in {q \in DOMAIN fs : q[1] = "." /\ q # FilecoinPath}
    /\ new_paths = Unset
    /\ written_calls = 0
    /\ created = {}
    /\ srs = Unset /\ nu = Unset /\ old_g1_point = Unset /\ update_proof = Unset
    /\ srs_old = Unset /\ tau = Unset /\ corruption = Unset /\ nu_product = Unset
    /\ updates = Unset /\ nu_powers = Unset /\ pending = Unset /\ rho = Unset
    /\ structure = Unset
    /\ SchnorrIdle /\ SerdeIdle /\ StoreIdle /\ ChainIdle /\ DrandIdle /\ FftIdle

\* let (new_srs_path, new_proof_path) = derive_new_path(old_srs_path);
DeriveNewPath ==
    /\ pc = "derive_new_path"
    /\ new_paths' = derive_new_path(old_srs_path, Cardinality(DirNames(fs, ProofsDir)))
    /\ pc' = "generate_toxic_waste"
    /\ UNCHANGED <<fs, srs, nu, old_g1_point, update_proof, old_srs_path,
                   written_calls, created>>
    /\ UNCHANGED otherThanUpdate

\* let nu = generate_toxic_waste(OsRng);
GenerateToxicWaste ==
    /\ pc = "generate_toxic_waste"
    /\ nu' \in ChainScalars
    /\ pc' = "read_from_file"
    /\ UNCHANGED <<fs, srs, old_g1_point, update_proof, old_srs_path, new_paths,
                   written_calls, created>>
    /\ UNCHANGED otherThanUpdate

\* let mut srs = SRS::read_from_file(old_srs_path);
ReadOldSrs ==
    /\ pc = "read_from_file"
    /\ LET s == SRS_read_from_file(fs[old_srs_path])
       IN  IF s = Panicked
           THEN pc' = "panicked" /\ UNCHANGED srs
           ELSE pc' = "assert_eq" /\ srs' = s
    /\ UNCHANGED <<fs, nu, old_g1_point, update_proof, old_srs_path, new_paths,
                   written_calls, created>>
    /\ UNCHANGED otherThanUpdate

\* The slip of taking the last entry read_dir yields for the last proof.
extends_chain_last_listed(s, files, entries) ==
    LET numbered == numbered_entries(entries)
    IN  IF numbered = <<>> THEN "unwrap on None"
        ELSE LET proof == UpdateProof_read_from_file(
                              files[<<ProofsDir, numbered[Len(numbered)][2]>>])
             IN  IF proof = Panicked THEN "read_from_file"
                 ELSE IF At(s.g1s, 1) # proof.h
                      THEN "SRS doesn't match chain of updates"
                      ELSE "ok"

\* assert_eq!(srs.g1s[1], <h of the last proof of the store>): "ok", or why
\* the statement panicked.
extends_chain(s, files, entries) ==
    LET ordered == open_update_proof_dirs(entries)
    IN  IF ordered = <<>> THEN "unwrap on None"
        ELSE LET proof == UpdateProof_read_from_file(
                              files[<<ProofsDir, ordered[Len(ordered)]>>])
             IN  IF proof = Panicked THEN "read_from_file"
                 ELSE IF At(s.g1s, 1) # proof.h
                      THEN "SRS doesn't match chain of updates"
                      ELSE "ok"

AssertExtendsChain ==
    /\ pc = "assert_eq"
    /\ \E l \in Listings(DirNames(fs, ProofsDir)) :
        pc' = IF extends_chain(srs, fs, l) = "ok" THEN "srs.update" ELSE "panicked"
    /\ UNCHANGED <<fs, srs, nu, old_g1_point, update_proof, old_srs_path, new_paths,
                   written_calls, created>>
    /\ UNCHANGED otherThanUpdate

\* let proof = srs.update(&nu);
SrsUpdate ==
    /\ pc = "srs.update"
    /\ old_g1_point' = At(srs.g1s, 1)
    /\ srs' = SRS_update(srs, nu)
    /\ \E r \in ChainNonces :
        update_proof' = UpdateProofCreate(old_g1_point', At(srs'.g1s, 1), nu, r)
    /\ pc' = "srs.write_to_file"
    /\ UNCHANGED <<fs, nu, old_srs_path, new_paths, written_calls, created>>
    /\ UNCHANGED otherThanUpdate

\* srs.write_to_file: create_file(path) makes the file, or empties it.
CreateSrsFile ==
    /\ pc = "srs.write_to_file"
    /\ fs' = WithFile(fs, new_paths.new_srs_path, <<>>)
    /\ created' = created \cup {new_paths.new_srs_path}
    /\ written_calls' = 0
    /\ pc' = "srs.write_all"
    /\ UNCHANGED <<srs, nu, old_g1_point, update_proof, old_srs_path, new_paths>>
    /\ UNCHANGED otherThanUpdate

\* srs.write_to_file: the next file.write_all(&point.to_raw_bytes()).
WriteSrsPoint ==
    /\ pc = "srs.write_all"
    /\ written_calls < Len(SRS_write_calls(srs))
    /\ fs' = [fs EXCEPT ![new_paths.new_srs_path] =
                  @ \o SRS_write_calls(srs)[written_calls + 1]]
    /\ written_calls' = written_calls + 1
    /\ UNCHANGED <<pc, srs, nu, old_g1_point, update_proof, old_srs_path, new_paths,
                   created>>
    /\ UNCHANGED otherThanUpdate

\* The slip of returning from write_to_file once the G1 points are written.
write_to_file_returns_after_g1s(s, calls) ==
    calls >= Len(s.g1s)

\* SRS::write_to_file returns when every write_all has returned.
write_to_file_returns(s, calls) ==
    calls = Len(SRS_write_calls(s))

\* srs.write_to_file returns: the file is dropped.
CloseSrsFile ==
    /\ pc = "srs.write_all"
    /\ write_to_file_returns(srs, written_calls)
    /\ pc' = "proof.write_to_file"
    /\ UNCHANGED <<fs, srs, nu, old_g1_point, update_proof, old_srs_path, new_paths,
                   written_calls, created>>
    /\ UNCHANGED otherThanUpdate

\* proof.write_to_file: create_file(path).
CreateProofFile ==
    /\ pc = "proof.write_to_file"
    /\ fs' = WithFile(fs, new_paths.new_proof_path, <<>>)
    /\ created' = created \cup {new_paths.new_proof_path}
    /\ pc' = "proof.write_all"
    /\ UNCHANGED <<srs, nu, old_g1_point, update_proof, old_srs_path, new_paths,
                   written_calls>>
    /\ UNCHANGED otherThanUpdate

\* proof.write_to_file: file.write_all(&bytes), then the command ends.
WriteProofBytes ==
    /\ pc = "proof.write_all"
    /\ fs' = [fs EXCEPT ![new_paths.new_proof_path] =
                  @ \o UpdateProof_write_to_file(update_proof)]
    /\ pc' = "update_done"
    /\ UNCHANGED <<srs, nu, old_g1_point, update_proof, old_srs_path, new_paths,
                   written_calls, created>>
    /\ UNCHANGED otherThanUpdate

UpdateSteps ==
    {"derive_new_path", "generate_toxic_waste", "read_from_file", "assert_eq",
     "srs.update", "srs.write_to_file", "srs.write_all", "proof.write_to_file",
     "proof.write_all"}

\* The process dies between two steps.
Crash ==
    /\ pc \in UpdateSteps
    /\ pc' = "crashed"
    /\ UNCHANGED <<fs, srs, nu, old_g1_point, update_proof, old_srs_path, new_paths,
                   written_calls, created>>
    /\ UNCHANGED otherThanUpdate

\* The bytes of the write_all the command is at, and the file they go to.
PendingWrite ==
    IF pc = "srs.write_all"
    THEN [path |-> new_paths.new_srs_path,
          bytes |-> SRS_write_calls(srs)[written_calls + 1]]
    ELSE [path |-> new_paths.new_proof_path,
          bytes |-> UpdateProof_write_to_file(update_proof)]

\* The process dies, or the write fails, during a write_all: a proper part
\* of its bytes is in the file.
TornWrite ==
    /\ \/ pc = "srs.write_all" /\ written_calls < Len(SRS_write_calls(srs))
       \/ pc = "proof.write_all"
    /\ \E len \in {1, Len(PendingWrite.bytes) - 1} :
        fs' = [fs EXCEPT ![PendingWrite.path] = @ \o SubSeq(PendingWrite.bytes, 1, len)]
    /\ pc' = "crashed"
    /\ UNCHANGED <<srs, nu, old_g1_point, update_proof, old_srs_path, new_paths,
                   written_calls, created>>
    /\ UNCHANGED otherThanUpdate

NextUpdate ==
    \/ DeriveNewPath \/ GenerateToxicWaste \/ ReadOldSrs \/ AssertExtendsChain
    \/ SrsUpdate \/ CreateSrsFile \/ WriteSrsPoint \/ CloseSrsFile
    \/ CreateProofFile \/ WriteProofBytes \/ Crash \/ TornWrite

SpecUpdate ==
    InitUpdate /\ [][NextUpdate]_vars

\* This run has created the file of the new proof.
NewProofFileExists ==
    \E path \in created : path[1] = ProofsDir

\* The file of the new SRS has the size of the updated SRS and reads back as
\* it.
NewSrsFileComplete ==
    /\ new_paths.new_srs_path \in created
    /\ Len(fs[new_paths.new_srs_path]) = Len(srs.g1s) * G1_SIZE + 2 * G2_SIZE
    /\ SRS_read_from_file(fs[new_paths.new_srs_path]) = srs

\* C10: in every state of the update command, a crash at any step included,
\* the file of the new proof exists only if the file of the new SRS holds
\* every byte of the updated SRS, whose g1s[1] is the h of the proof; and
\* when the command ends both files are complete.
C10_SrsWrittenBeforeProof ==
    /\ NewProofFileExists =>
          /\ NewSrsFileComplete
          /\ read_g1_point_from_file(fs[new_paths.new_srs_path], G1_SIZE)
                = update_proof.h
    /\ pc = "update_done" =>
          /\ NewProofFileExists
          /\ fs[new_paths.new_proof_path] = UpdateProof_write_to_file(update_proof)

\* The process died during the write of the proof file: the proof file holds
\* part of the proof and the SRS file is complete.
C10_Witness ==
    /\ pc = "crashed"
    /\ NewProofFileExists
    /\ Len(fs[new_paths.new_proof_path]) = 1
    /\ NewSrsFileComplete

(***************************************************************************)
(* SpecAppend: update commands run one after another on a proof store that *)
(* holds one proof, under any name proof<n>, and possibly one other entry. *)
(***************************************************************************)
\* The numbers under which the proof of the first contribution may be stored.
StoredNumbers == {1, 2}

\* A name of ./proofs that is not the name of a proof.
OtherEntry == <<ProofsDir, <<"notes">> >>

WithoutFile(files, path) ==
    [q \in DOMAIN files \ {path} |-> files[q]]

\* The files of a ceremony of one contribution whose proof is stored as
\* proof<m>.
StoreFiles(s0, m, other) ==
    LET files == CeremonyFiles(s0, 1)
        renamed == WithFile(WithoutFile(files, ProofPath(1)), ProofPath(m),
                            files[ProofPath(1)])
    IN  IF other THEN WithFile(renamed, OtherEntry, <<>>) ELSE renamed

InitAppend ==
    /\ pc = "derive_new_path"
    /\ \E t \in StartSecrets, m \in StoredNumbers, other \in BOOLEAN :
        fs = StoreFiles(SRS_generate(2, t), m, other)
    /\ old_srs_path \in {q \in DOMAIN fs : q[1] = "." /\ q # FilecoinPath}
    /\ new_paths = Unset
    /\ written_calls = 0
    /\ created = {}
    /\ updates = 0
    /\ srs = Unset /\ nu = Unset /\ old_g1_point = Unset /\ update_proof = Unset
    /\ srs_old = Unset /\ tau = Unset /\ corruption = Unset /\ nu_product = Unset
    /\ nu_powers = Unset /\ pending = Unset /\ rho = Unset /\ structure = Unset
    /\ SchnorrIdle /\ SerdeIdle /\ StoreIdle /\ ChainIdle /\ DrandIdle /\ FftIdle

\* The command has ended, one way or another, and is run again on an SRS
\* file of the directory.
RunAgain ==
    /\ pc \in {"update_done", "panicked", "crashed"}
    /\ updates + 1 < MaxUpdates
    /\ updates' = updates + 1
    /\ pc' = "derive_new_path"
    /\ old_srs_path' \in {q \in DOMAIN fs : q[1] = "." /\ q # FilecoinPath}
    /\ new_paths' = Unset
    /\ written_calls' = 0
    /\ created' = {}
    /\ srs' = Unset /\ nu' = Unset /\ old_g1_point' = Unset /\ update_proof' = Unset
    /\ UNCHANGED <<fs, schnorrVars, serdeVars, storeVars, chainVars, srs_old, tau,
                   corruption, nu_product, nu_powers, pending, rho, structure,
                   drandVars, fftVars>>

NextAppend ==
    NextUpdate \/ RunAgain

SpecAppend ==
    InitAppend /\ [][NextAppend]_vars

\* The files of ./proofs that this run of the command did not create.
EarlierProofs ==
    {path \in DOMAIN fs : path[1] = ProofsDir /\ path \notin created}

\* C11: across update commands every file of ./proofs written before the
\* running command keeps existing with the same bytes, and the proof path
\* derive_new_path returns is not the path of an existing file.
C11_ProofStoreOnlyGrows ==
    [][/\ \A path \in EarlierProofs : path \in DOMAIN fs' /\ fs'[path] = fs[path]
       /\ (pc = "derive_new_path" /\ pc' = "generate_toxic_waste") =>
              new_paths'.new_proof_path \notin DOMAIN fs]_vars

(***************************************************************************)
(* bin/drand_verifier.rs.                                                  *)
(***************************************************************************)
\* The k-th byte, counted from the first, of the little-endian form of
\* v < 2^32.
LittleEndianByte(v, k) ==
    IF k > 3 THEN 0 ELSE (v \div (256 ^ k)) % 256

\* u64::to_le_bytes.
u64_to_le_bytes(v) ==
    [i \in 1..8 |-> LittleEndianByte(v, i - 1)]

\* Blake2b512::digest(data) and finalize(): the 64 bytes of the digest.
Blake2b512_digest(data) ==
    [i \in 1..64 |-> LittleEndianByte(Blake2b512(data), i - 1)]

\* SHA-256 over a byte string, 32 bytes: the bytes absorbed in order, with
\* other constants than Blake2b512.
RECURSIVE Sha256Absorb(_, _, _)
Sha256Absorb(acc, bytes, k) ==
    IF k > Len(bytes) THEN acc
    ELSE Sha256Absorb((acc * 37 + bytes[k] + 11) % 65519, bytes, k + 1)

Sha256(bytes) ==
    [i \in 1..32 |-> LittleEndianByte(Sha256Absorb(3, bytes, 1), i - 1)]

\* drand_verify::derive_randomness(signature): the SHA-256 of the signature.
derive_randomness(signature) ==
    Sha256(signature)

\* The signature the beacon publishes for a round, and
\* drand_verify::verify(pubkey, round, previous_signature, signature).
BeaconSignature(round) ==
    Sha256(u64_to_le_bytes(round) \o <<5>>)

drand_verify(round, signature) ==
    signature = BeaconSignature(round)

\* Scalar::random(ChaCha20Rng::from_seed(seed)): a scalar fixed by the seed.
Scalar_random_from_seed(seed) ==
    Sha256Absorb(17, seed, 1) % FieldOrder

\* The slip of comparing the first 32 bytes of the hash only.
verify_commitment_first_half(round, salt, commitment) ==
    SubSeq(Blake2b512_digest(u64_to_le_bytes(round) \o salt), 1, 32) = commitment

\* verify_commitment: TRUE when it returns, FALSE when it exits with 1.
verify_commitment(round, salt, commitment) ==
    LET data == u64_to_le_bytes(round) \o salt
        hash == Blake2b512_digest(data)
    IN  hash = commitment

\* main: the seed from signature and salt, and the scalar from the seed.
derive_scalar(signature, salt) ==
    LET seed == SubSeq(Blake2b512_digest(derive_randomness(signature) \o salt), 1, 32)
    IN  Scalar_random_from_seed(seed)

\* The slip of checking g = h * scalar.
last_contribution_matches_swapped(proof, scalar) ==
    G1Mul(proof.h, scalar) = proof.g

\* main: (last_proof.g * scalar).to_affine() == last_proof.h.
last_contribution_matches(proof, scalar) ==
    G1Mul(proof.g, scalar) = proof.h

(***************************************************************************)
(* SpecDrand: one run of drand_verifier, for a few rounds, salts and        *)
(* commitments, whatever the beacon answers and whatever proofs the store   *)
(* holds.                                                                  *)
(***************************************************************************)
DrandRounds == {1, 256}
DrandSalts == {[i \in 1..16 |-> 0], [i \in 1..16 |-> i]}
DrandNames == {ProofName(<<"1">>), ProofName(<<"2">>), ProofName(<<"1", "0">>)}

\* The commitment as the spec words it: the SHA-256 of the round in 8
\* little-endian bytes, padded with zeros to 16 bytes, then the salt.
PaddedSha256Commitment(round, salt) ==
    Sha256(u64_to_le_bytes(round) \o [i \in 1..8 |-> 0] \o salt)

\* The commitments a run may be given for (round, salt): the Blake2b512
\* digest of some round and salt, the first half of the right digest, and
\* the commitment as the spec words it.
DrandCommitments(round, salt) ==
    {Blake2b512_digest(u64_to_le_bytes(r) \o t) : r \in DrandRounds, t \in DrandSalts}
        \cup {SubSeq(Blake2b512_digest(u64_to_le_bytes(round) \o salt), 1, 32),
              PaddedSha256Commitment(round, salt)}

\* A store whose proofs have g = the generator and were made with the scalar
\* of this round and salt, or with the next scalar.
DrandStore(round, salt, honest) ==
    LET scalar == derive_scalar(BeaconSignature(round), salt)
        x(name) == IF honest[name] THEN scalar ELSE ScalarAdd(scalar, ScalarONE)
    IN  [path \in {<<ProofsDir, name>> : name \in DOMAIN honest} |->
            UpdateProof_write_to_file(
                UpdateProofCreate(G1generator, G1Mul(G1generator, x(path[2])),
                                  x(path[2]), ScalarONE))]

InitDrand ==
    /\ pc = "verify_commitment"
    /\ args_round \in DrandRounds
    /\ args_salt \in DrandSalts
    /\ args_commitment \in DrandCommitments(args_round, args_salt)
    /\ args_verify_chain \in BOOLEAN
    /\ \E names \in SUBSET DrandNames : \E honest \in [names -> BOOLEAN] :
        fs = DrandStore(args_round, args_salt, honest)
    /\ drand_response = Unset
    /\ drand_scalar = Unset
    /\ last_proof = Unset
    /\ drand_steps = <<>>
    /\ SchnorrIdle /\ SrsIdle /\ SerdeIdle /\ StoreIdle /\ ChainIdle /\ UpdateIdle
    /\ FftIdle

\* verify_commitment(args.round, &salt, &commitment);
VerifyCommitment ==
    /\ pc = "verify_commitment"
    /\ pc' = IF verify_commitment(args_round, args_salt, args_commitment)
             THEN "fetch_drand_round" ELSE "exit(1)"
    /\ drand_steps' = Append(drand_steps, "verify_commitment")
    /\ UNCHANGED <<args_round, args_salt, args_commitment, args_verify_chain,
                   drand_response, drand_scalar, last_proof>>
    /\ UNCHANGED otherThanDrand

\* fetch_drand_round(args.round).expect(..): the beacon answers with the
\* signature of the round or with another one, or the call fails.
FetchDrandRound ==
    /\ pc = "fetch_drand_round"
    /\ \/ /\ drand_response' \in {BeaconSignature(args_round),
                                  BeaconSignature(args_round + 1)}
          /\ pc' = IF args_verify_chain THEN "verify_chain" ELSE "verify_signature"
       \/ /\ pc' = "panicked"
          /\ UNCHANGED drand_response
    /\ drand_steps' = Append(drand_steps, "fetch_drand_round")
    /\ UNCHANGED <<args_round, args_salt, args_commitment, args_verify_chain,
                   drand_scalar, last_proof>>
    /\ UNCHANGED otherThanDrand

\* verify_chain(1, args.round): every round is fetched and verified; a
\* failed fetch panics and a wrong signature exits with 1.
DrandVerifyChain ==
    /\ pc = "verify_chain"
    /\ pc' \in {"verify_signature", "panicked", "exit(1)"}
    /\ drand_steps' = Append(drand_steps, "verify_chain")
    /\ UNCHANGED <<args_round, args_salt, args_commitment, args_verify_chain,
                   drand_response, drand_scalar, last_proof>>
    /\ UNCHANGED otherThanDrand

\* verify_signature(args.round, &signature, &previous_sig, DRAND_PUBLIC_KEY);
VerifySignature ==
    /\ pc = "verify_signature"
    /\ pc' = IF drand_verify(args_round, drand_response)
             THEN "derive_scalar" ELSE "exit(1)"
    /\ drand_steps' = Append(drand_steps, "verify_signature")
    /\ UNCHANGED <<args_round, args_salt, args_commitment, args_verify_chain,
                   drand_response, drand_scalar, last_proof>>
    /\ UNCHANGED otherThanDrand

\* let seed = ..; let scalar = Scalar::random(ChaCha20Rng::from_seed(seed));
DeriveScalar ==
    /\ pc = "derive_scalar"
    /\ drand_scalar' = derive_scalar(drand_response, args_salt)
    /\ pc' = "open_update_proof_dirs"
    /\ drand_steps' = Append(drand_steps, "derive_scalar")
    /\ UNCHANGED <<args_round, args_salt, args_commitment, args_verify_chain,
                   drand_response, last_proof>>
    /\ UNCHANGED otherThanDrand

\* The store is listed; with fewer than 2 proofs the run exits with 1, else
\* the last proof is read.
ReadLastProof ==
    /\ pc = "open_update_proof_dirs"
    /\ \E l \in Listings(DirNames(fs, ProofsDir)) :
        LET update_proofs == open_update_proof_dirs(l)
        IN  IF Len(update_proofs) < 2
            THEN pc' = "exit(1)" /\ UNCHANGED last_proof
            ELSE /\ last_proof' = UpdateProof_read_from_file(
                                      fs[<<ProofsDir, update_proofs[Len(update_proofs)]>>])
                 /\ pc' = IF last_proof' = Panicked THEN "panicked" ELSE "check_last"
    /\ drand_steps' = Append(drand_steps, "open_update_proof_dirs")
    /\ UNCHANGED <<args_round, args_salt, args_commitment, args_verify_chain,
                   drand_response, drand_scalar>>
    /\ UNCHANGED otherThanDrand

\* if (last_proof.g * scalar).to_affine() != last_proof.h { exit(1) }
CheckLastContribution ==
    /\ pc = "check_last"
    /\ pc' = IF last_contribution_matches(last_proof, drand_scalar)
             THEN "exit(0)" ELSE "exit(1)"
    /\ drand_steps' = Append(drand_steps, "check_last")
    /\ UNCHANGED <<args_round, args_salt, args_commitment, args_verify_chain,
                   drand_response, drand_scalar, last_proof>>
    /\ UNCHANGED otherThanDrand

NextDrand ==
    \/ VerifyCommitment \/ FetchDrandRound \/ DrandVerifyChain \/ VerifySignature
    \/ DeriveScalar \/ ReadLastProof \/ CheckLastContribution

SpecDrand ==
    InitDrand /\ [][NextDrand]_vars

\* verify_commitment has run and it was the last step: the run exited there.
StoppedAtCommitment ==
    pc = "exit(1)" /\ drand_steps = <<"verify_commitment">>

CommitmentChecked ==
    drand_steps # <<>>

\* C12 as stated: the commitment check passes exactly when the 32-byte
\* commitment is the SHA-256 of the round in 8 little-endian bytes padded to
\* 16, then the salt; on mismatch the run exits with 1 at once.
C12_CommitmentIsPaddedSha256 ==
    CommitmentChecked =>
        IF args_commitment = PaddedSha256Commitment(args_round, args_salt)
        THEN ~StoppedAtCommitment
        ELSE StoppedAtCommitment

\* C12, amended: the commitment check passes exactly when the commitment is
\* the 64-byte Blake2b512 digest of the round in 8 little-endian bytes
\* followed by the salt; on mismatch the run exits with 1 and no later step
\* is performed.
C12_CommitmentIsBlake2b512 ==
    CommitmentChecked =>
        IF /\ Len(args_commitment) = 64
           /\ \A i \in 1..64 : args_commitment[i] =
                 LittleEndianByte(
                     Blake2b512([k \in 1..8 |-> LittleEndianByte(args_round, k - 1)]
                                    \o args_salt), i - 1)
        THEN ~StoppedAtCommitment /\ drand_steps[1] = "verify_commitment"
        ELSE StoppedAtCommitment

\* A run given a commitment of another round stopped at the commitment check;
\* and a run given the right commitment went on to the beacon.
C12_Witness ==
    /\ StoppedAtCommitment
    /\ Len(args_commitment) = 64
    /\ args_commitment # Blake2b512_digest(u64_to_le_bytes(args_round) \o args_salt)

\* The proofs of the store that carry its largest number.
LastInStore ==
    LET names == {n \in DirNames(fs, ProofsDir) : proof_number(n) # None}
    IN  {UpdateProof_read_from_file(fs[<<ProofsDir, n>>]) :
            n \in {m \in names : \A k \in names : proof_number(k) <= proof_number(m)}}

\* The scalar of the answer of the beacon and the salt.
BeaconScalar ==
    derive_scalar(drand_response, args_salt)

\* C13: the run ends with success only if the commitment check and the
\* signature check passed and the proof with the largest number of the
\* store has g * nu = h, nu the scalar derived from signature and salt; a
\* run that reaches the last check with g * nu # h exits with 1.
C13_SuccessOnlyIfLastMatches ==
    /\ pc = "exit(0)" =>
          /\ args_commitment = Blake2b512_digest(u64_to_le_bytes(args_round) \o args_salt)
          /\ drand_response = BeaconSignature(args_round)
          /\ \E proof \in LastInStore : G1Mul(proof.g, BeaconScalar) = proof.h
    /\ (drand_steps # <<>> /\ drand_steps[Len(drand_steps)] = "check_last") =>
          \A proof \in LastInStore :
              G1Mul(proof.g, BeaconScalar) # proof.h => pc = "exit(1)"

\* Success on a store where proof10 is the last proof and was made with the
\* scalar of the beacon, and proof2 was not.
C13_Witness ==
    /\ pc = "exit(0)"
    /\ {ProofName(<<"2">>), ProofName(<<"1", "0">>)} \subseteq DirNames(fs, ProofsDir)
    /\ LET proof2 == UpdateProof_read_from_file(fs[<<ProofsDir, ProofName(<<"2">>)>>])
       IN  G1Mul(proof2.g, BeaconScalar) # proof2.h

(***************************************************************************)
(* The radix-2 FFT of halo2curves and the constants of the scalar field it *)
(* is called with (bin/srs_consistency.rs, filecoin.rs).                   *)
(***************************************************************************)
\* Scalar::S: the 2-adicity of the field, 2^S dividing FieldOrder - 1.
Scalar_S ==
    CHOOSE e \in 0..FieldOrder :
        /\ (FieldOrder - 1) % (2 ^ e) = 0
        /\ (FieldOrder - 1) % (2 ^ (e + 1)) # 0

\* The multiplicative order of a nonzero scalar.
OrderOf(x) ==
    CHOOSE n \in 1..(FieldOrder - 1) :
        /\ ScalarPow(x, n) = ScalarONE
        /\ \A m \in 1..(n - 1) : ScalarPow(x, m) # ScalarONE

\* Scalar::MULTIPLICATIVE_GENERATOR and Scalar::ROOT_OF_UNITY, of order 2^S.
MULTIPLICATIVE_GENERATOR ==
    CHOOSE x \in 1..(FieldOrder - 1) :
        /\ OrderOf(x) = FieldOrder - 1
        /\ \A y \in 1..(x - 1) : OrderOf(y) # FieldOrder - 1

ROOT_OF_UNITY ==
    ScalarPow(MULTIPLICATIVE_GENERATOR, (FieldOrder - 1) \div (2 ^ Scalar_S))

\* ROOT_OF_UNITY.pow([1 << (S - k)]): a root of unity of order 2^k.
omega_for(k) ==
    ScalarPow(ROOT_OF_UNITY, 2 ^ (Scalar_S - k))

\* The entries of a at the even (parity 0) or odd (parity 1) 0-based indices.
Stride(a, parity) ==
    [i \in 1..(Len(a) \div 2) |-> a[2 * i - 1 + parity]]

\* The slip of recursing with omega instead of omega^2.
RECURSIVE best_fft_same_root(_, _, _)
best_fft_same_root(a, omega, log_n) ==
    IF log_n = 0 THEN a
    ELSE LET even == best_fft_same_root(Stride(a, 0), omega, log_n - 1)
             odd  == best_fft_same_root(Stride(a, 1), omega, log_n - 1)
             half == Len(a) \div 2
         IN  [j \in 1..Len(a) |->
                 G1Add(even[((j - 1) % half) + 1],
                       G1Mul(odd[((j - 1) % half) + 1], ScalarPow(omega, j - 1)))]

\* best_fft(a, omega, log_n): the radix-2 FFT of the 2^log_n entries of a,
\* scalars or points, by halving: the transforms of the even and of the odd
\* entries with omega^2, joined by the butterflies.
RECURSIVE best_fft(_, _, _)
best_fft(a, omega, log_n) ==
    IF log_n = 0 THEN a
    ELSE LET even == best_fft(Stride(a, 0), ScalarMul(omega, omega), log_n - 1)
             odd  == best_fft(Stride(a, 1), ScalarMul(omega, omega), log_n - 1)
             half == Len(a) \div 2
         IN  [j \in 1..Len(a) |->
                 G1Add(even[((j - 1) % half) + 1],
                       G1Mul(odd[((j - 1) % half) + 1], ScalarPow(omega, j - 1)))]

\* The slip of committing with the coefficient basis twice.
check_consistency_coeff_twice(s, poly) ==
    LET coeff == msm_best(poly, s.g1s_coeff)
        evals == best_fft(poly, omega_for(s.k), s.k)
    IN  [com_coeff |-> coeff, random_poly |-> evals,
         com_lagrange |-> msm_best(evals, s.g1s_coeff)]

\* ExtendedSRS::check_consistency once random_poly is sampled: the two
\* commitments and the polynomial after the FFT.
check_consistency(s, poly) ==
    LET coeff == msm_best(poly, s.g1s_coeff)
        evals == best_fft(poly, omega_for(s.k), s.k)
    IN  [com_coeff |-> coeff, random_poly |-> evals,
         com_lagrange |-> msm_best(evals, s.g1s_lagrange)]

(***************************************************************************)
(* SpecConsistency: check_consistency on an ExtendedSRS of 2^k powers of a *)
(* secret whose Lagrange points are right, or off in some positions.       *)
(***************************************************************************)
ExtSecrets == {0, 2, 3}

\* L_j(t) for the 2^k-th roots of unity omega^0, omega^1, ..: the product
\* of (t - omega^m) / (omega^j - omega^m) over m # j.
RECURSIVE LagrangeProduct(_, _, _, _)
LagrangeProduct(j, t, w, m) ==
    IF m < 0 THEN ScalarONE
    ELSE IF m = j THEN LagrangeProduct(j, t, w, m - 1)
    ELSE ScalarMul(LagrangeProduct(j, t, w, m - 1),
                   ScalarMul(ScalarSub(t, ScalarPow(w, m)),
                             ScalarInv(ScalarSub(ScalarPow(w, j), ScalarPow(w, m)))))

LagrangeAt(j, t, k) ==
    LagrangeProduct(j, t, omega_for(k), 2 ^ k - 1)

\* The Lagrange basis [L_j(t)]_1 of the points [t^i]_1.
CorrectLagrange(t, k) ==
    [j \in 1..(2 ^ k) |-> G1Mul(G1generator, LagrangeAt(j - 1, t, k))]

InitConsistency ==
    /\ pc = "sample"
    /\ tau \in ExtSecrets
    /\ \E k \in 0..Scalar_S : \E off \in [1..(2 ^ k) -> {0, 1}] :
        ext_srs = [g1s_coeff |-> [i \in 1..(2 ^ k) |->
                                     G1Mul(G1generator, ScalarPow(tau, i - 1))],
                   g1s_lagrange |-> [j \in 1..(2 ^ k) |->
                                        G1Add(CorrectLagrange(tau, k)[j], off[j])],
                   k |-> k]
    /\ random_poly = Unset /\ com_coeff = Unset /\ com_lagrange = Unset
    /\ fil_k = Unset /\ fil_g1s = Unset
    /\ srs = Unset /\ srs_old = Unset /\ corruption = Unset /\ nu = Unset
    /\ nu_product = Unset /\ updates = Unset /\ old_g1_point = Unset
    /\ nu_powers = Unset /\ pending = Unset /\ update_proof = Unset
    /\ rho = Unset /\ structure = Unset
    /\ SchnorrIdle /\ FsIdle /\ SerdeIdle /\ StoreIdle /\ ChainIdle /\ UpdateIdle
    /\ DrandIdle

\* let mut random_poly = (0..n).map(|_| F::random(OsRng)).collect();
SamplePolynomial ==
    /\ pc = "sample"
    /\ random_poly' \in [1..Len(ext_srs.g1s_coeff) -> Scalar]
    /\ pc' = "commit"
    /\ UNCHANGED <<ext_srs, com_coeff, com_lagrange>>
    /\ UNCHANGED otherThanConsistency

\* The two commitments, the FFT between them, and the assert_eq.
CommitAndCompare ==
    /\ pc = "commit"
    /\ LET r == check_consistency(ext_srs, random_poly)
       IN  /\ com_coeff' = r.com_coeff
           /\ random_poly' = r.random_poly
           /\ com_lagrange' = r.com_lagrange
           /\ pc' = IF r.com_coeff = r.com_lagrange THEN "consistent" ELSE "panicked"
    /\ UNCHANGED ext_srs
    /\ UNCHANGED otherThanConsistency

NextConsistency ==
    SamplePolynomial \/ CommitAndCompare

SpecConsistency ==
    InitConsistency /\ [][NextConsistency]_vars

\* P(x) for the coefficients poly, by Horner's rule.
RECURSIVE Eval(_, _)
Eval(poly, x) ==
    IF poly = <<>> THEN 0
    ELSE ScalarAdd(Head(poly), ScalarMul(x, Eval(Tail(poly), x)))

Evaluations(poly, k) ==
    [j \in 1..(2 ^ k) |-> Eval(poly, ScalarPow(omega_for(k), j - 1))]

LagrangeIsCorrect ==
    ext_srs.g1s_lagrange = CorrectLagrange(tau, ext_srs.k)

\* The sum over j of e_j * (Lambda_j - [L_j(tau)]_1).
RECURSIVE Defect(_, _)
Defect(evals, j) ==
    IF j = 0 THEN G1identity
    ELSE G1Add(Defect(evals, j - 1),
               G1Mul(G1Sub(ext_srs.g1s_lagrange[j],
                           CorrectLagrange(tau, ext_srs.k)[j]), evals[j]))

\* C14: with the right Lagrange points, for every coefficient vector the
\* FFT yields P(omega^j) at index j, both commitments are [P(tau)]_1 and
\* the check accepts.
C14_Completeness ==
    /\ pc = "commit" =>
          check_consistency(ext_srs, random_poly).random_poly
              = Evaluations(random_poly, ext_srs.k)
    /\ (pc = "commit" /\ LagrangeIsCorrect) =>
          LET r == check_consistency(ext_srs, random_poly)
          IN  /\ r.com_coeff = G1Mul(G1generator, Eval(random_poly, tau))
              /\ r.com_lagrange = r.com_coeff
    /\ (pc \in {"consistent", "panicked"} /\ LagrangeIsCorrect) =>
          pc = "consistent" /\ com_coeff = com_lagrange

\* The check accepted a polynomial of 2^S coefficients, not all zero, on the
\* right Lagrange points.
C14_Witness ==
    /\ pc = "consistent"
    /\ LagrangeIsCorrect
    /\ ext_srs.k = Scalar_S
    /\ com_coeff # G1identity
    /\ tau # 0

\* The coefficient vectors check_consistency accepts.
AcceptedPolynomials ==
    {c \in [1..Len(ext_srs.g1s_coeff) -> Scalar] :
        LET r == check_consistency(ext_srs, c) IN r.com_coeff = r.com_lagrange}

\* C15: with Lagrange points wrong in at least one position the check
\* accepts exactly the vectors whose evaluations e_j satisfy
\* sum e_j * (Lambda_j - [L_j(tau)]_1) = 0, which are one in |F| of all
\* coefficient vectors.
C15_Soundness ==
    /\ (pc = "sample" /\ ~LagrangeIsCorrect) =>
          Cardinality(AcceptedPolynomials) * FieldOrder
              = FieldOrder ^ Len(ext_srs.g1s_coeff)
    /\ (pc \in {"consistent", "panicked"} /\ ~LagrangeIsCorrect) =>
          (pc = "consistent" <=> Defect(random_poly, Len(random_poly)) = G1identity)

\* The check panicked on Lagrange points wrong in one position.
C15_Witness ==
    /\ pc = "panicked"
    /\ ~LagrangeIsCorrect
    /\ ext_srs.k = Scalar_S
    /\ Cardinality({j \in 1..Len(ext_srs.g1s_lagrange) :
           ext_srs.g1s_lagrange[j] # CorrectLagrange(tau, ext_srs.k)[j]}) = 1

(***************************************************************************)
(* SpecFilecoin: extract_g1_point_from_filecoin_srs on a file of a header, *)
(* the 2^k Lagrange points of a secret and more bytes, or on such a file   *)
(* cut short.                                                              *)
(***************************************************************************)
Phase1Path == <<".", <<"phase1radix2m19">> >>

\* The header the function skips: [alpha]_1, [beta]_1, [beta]_2.
FilecoinHeader(alpha, beta) ==
    G1_to_raw_bytes(G1Mul(G1generator, alpha))
        \o G1_to_raw_bytes(G1Mul(G1generator, beta))
        \o G2_to_raw_bytes(G2Mul(G2generator, beta))

FilecoinFile(alpha, beta, t, k, rest) ==
    FilecoinHeader(alpha, beta)
        \o Concat([j \in 1..(2 ^ k) |-> G1_to_raw_bytes(CorrectLagrange(t, k)[j])])
        \o rest

InitFilecoin ==
    /\ pc = "read_exact"
    /\ tau \in Scalar
    /\ fil_k \in 1..Scalar_S
    /\ fil_g1s = <<>>
    /\ \E alpha \in {1, 2}, beta \in {0, 3},
          rest \in {<<>>, G1_to_raw_bytes(G1generator)}, cut \in {0, 1} :
        LET file == FilecoinFile(alpha, beta, tau, fil_k, rest)
        IN  fs = (Phase1Path :> SubSeq(file, 1, Len(file) - cut * (Len(rest) + 1)))
    /\ ext_srs = Unset /\ random_poly = Unset /\ com_coeff = Unset
    /\ com_lagrange = Unset
    /\ srs = Unset /\ srs_old = Unset /\ corruption = Unset /\ nu = Unset
    /\ nu_product = Unset /\ updates = Unset /\ old_g1_point = Unset
    /\ nu_powers = Unset /\ pending = Unset /\ update_proof = Unset
    /\ rho = Unset /\ structure = Unset
    /\ SchnorrIdle /\ SerdeIdle /\ StoreIdle /\ ChainIdle /\ UpdateIdle /\ DrandIdle

\* The slip of skipping one G1 point of the header only.
filecoin_offset_one_g1 ==
    G1_SIZE + G2_SIZE

\* The offset of the first point read: the header is skipped.
filecoin_offset ==
    G1_SIZE + G1_SIZE + G2_SIZE

\* One turn of the loop: file.read_exact(&mut bytes).unwrap();
\* g1s.push(read_g1_point(&bytes).into());
ReadFilecoinPoint ==
    /\ pc = "read_exact"
    /\ Len(fil_g1s) < 2 ^ fil_k
    /\ LET from == filecoin_offset + Len(fil_g1s) * G1_SIZE
           bytes == BytesAt(fs[Phase1Path], from, G1_SIZE)
       IN  IF from + G1_SIZE > Len(fs[Phase1Path]) \/ read_g1_point(bytes) = None
           THEN pc' = "panicked" /\ UNCHANGED fil_g1s
           ELSE pc' = pc /\ fil_g1s' = Append(fil_g1s, read_g1_point(bytes))
    /\ UNCHANGED <<fs, fil_k>>
    /\ UNCHANGED otherThanFilecoin

\* let omega = ..; best_fft(&mut g1s, omega, k as u32);
ConvertToCoeffForm ==
    /\ pc = "read_exact"
    /\ Len(fil_g1s) = 2 ^ fil_k
    /\ fil_g1s' = best_fft(fil_g1s, omega_for(fil_k), fil_k)
    /\ pc' = "write_raw"
    /\ UNCHANGED <<fs, fil_k>>
    /\ UNCHANGED otherThanFilecoin

\* g1s[1] is written to ./filecoin_srs_g1_point.
WriteFilecoinPoint ==
    /\ pc = "write_raw"
    /\ fs' = WithFile(fs, FilecoinPath, G1_to_raw_bytes(At(fil_g1s, 1)))
    /\ pc' = "extracted"
    /\ UNCHANGED <<fil_k, fil_g1s>>
    /\ UNCHANGED otherThanFilecoin

NextFilecoin ==
    ReadFilecoinPoint \/ ConvertToCoeffForm \/ WriteFilecoinPoint

SpecFilecoin ==
    InitFilecoin /\ [][NextFilecoin]_vars

\* C16: the points read are the Lagrange points of the file, the FFT turns
\* them into [tau^i]_1 at every index i, and the file written holds exactly
\* [tau]_1.
C16_ExtractsTau ==
    /\ pc = "read_exact" =>
          \A j \in 1..Len(fil_g1s) : fil_g1s[j] = CorrectLagrange(tau, fil_k)[j]
    /\ pc \in {"write_raw", "extracted"} =>
          /\ Len(fil_g1s) = 2 ^ fil_k
          /\ \A i \in 0..(2 ^ fil_k - 1) :
                At(fil_g1s, i) = G1Mul(G1generator, ScalarPow(tau, i))
    /\ pc = "extracted" =>
          /\ DOMAIN fs = {Phase1Path, FilecoinPath}
          /\ fs[FilecoinPath] = G1_to_raw_bytes(G1Mul(G1generator, tau))
          /\ read_g1_point_from_file(fs[FilecoinPath], 0) = G1Mul(G1generator, tau)

\* [tau]_1 was extracted from 2^S Lagrange points, tau neither 0 nor 1.
C16_Witness ==
    /\ pc = "extracted"
    /\ fil_k = Scalar_S
    /\ tau \notin {0, ScalarONE}
    /\ read_g1_point_from_file(fs[FilecoinPath], 0) = G1Mul(G1generator, tau)

(***************************************************************************)
(* SpecSrs: the parallel loop of SRS::update under every schedule.         *)
(***************************************************************************)
\* C17: whichever indices the loop has taken so far and in whatever order,
\* every index taken holds its own old point scaled by nu^i, every index not
\* yet taken holds its old point, and g2s is untouched until the loop has
\* joined; so the g1s and g2s after the update and the (g, h) of the proof
\* are the same for every schedule.
C17_ScheduleIndependent ==
    /\ pc = "updating" =>
          /\ Len(srs.g1s) = Len(srs_old.g1s)
          /\ \A i \in 0..(Len(srs_old.g1s) - 1) :
                At(srs.g1s, i) = IF i \in pending
                                 THEN At(srs_old.g1s, i)
                                 ELSE G1Mul(At(srs_old.g1s, i), ScalarPow(nu, i))
          /\ srs.g2s = srs_old.g2s
    /\ (pc = "scaled" \/ UpdateReturned) =>
          /\ srs.g1s = [j \in 1..Len(srs_old.g1s) |->
                           G1Mul(srs_old.g1s[j], ScalarPow(nu, j - 1))]
          /\ srs.g2s = <<srs_old.g2s[1], G2Mul(srs_old.g2s[2], nu)>>
    /\ UpdateReturned =>
          /\ update_proof.g = At(srs_old.g1s, 1)
          /\ update_proof.h = G1Mul(At(srs_old.g1s, 1), nu)

\* The loop has taken the last index before index 1, and the scaling changed
\* the point.
C17_Witness ==
    /\ pc = "updating"
    /\ Len(srs.g1s) = MaxLen
    /\ 1 \in pending
    /\ (MaxLen - 1) \notin pending
    /\ At(srs.g1s, MaxLen - 1) # At(srs_old.g1s, MaxLen - 1)

(***************************************************************************)
(* SpecStore: the entries of ./proofs that have no number.                 *)
(***************************************************************************)
\* C18: an entry of ./proofs whose name is not proof<n> aborts the
\* enumeration: open_update_proof_dirs returns only when every name of the
\* directory has a number.
C18_UnparsableNameIsFatal ==
    pc = "listed" =>
        \A n \in DirNames(fs, ProofsDir) : proof_number(n) # None

(***************************************************************************)
(* SpecSrs: the proofs SRS::update returns.                                *)
(***************************************************************************)
\* C19: the UpdateProof returned by SRS::update on a generated SRS of a
\* secret other than 0 and 1, after any updates before it and for any scalar
\* nu, has g # h and g # identity.
C19_ProofInvariants ==
    (UpdateReturned /\ corruption.kind = "none" /\ ValidSecret(tau)) =>
        /\ update_proof.g # update_proof.h
        /\ update_proof.g # G1identity

(***************************************************************************)
(* SpecSrs: the batching scalar of verify_structure.                       *)
(***************************************************************************)
\* C20: the scalar rho verify_structure draws is never zero, and the powers
\* it batches with are rho^0..rho^(N-2), none of them zero, so that every
\* pair (g1s[i], g1s[i+1]) has a weight in the batched sums L and R.
C20_RhoNeverZero ==
    pc = "verified" =>
        LET n == Len(srs.g1s)
            r_powers == powers(rho, n - 1)
        IN  /\ rho # 0
            /\ r_powers = [i \in 1..(n - 1) |-> ScalarPow(rho, i - 1)]
            /\ \A i \in 1..(n - 1) : r_powers[i] # 0

\* The conjuncts of C20 on the powers, whenever the scalar drawn is not zero.
PowersOfNonzeroRho ==
    (pc = "verified" /\ rho # 0) =>
        LET n == Len(srs.g1s)
            r_powers == powers(rho, n - 1)
        IN  /\ r_powers = [i \in 1..(n - 1) |-> ScalarPow(rho, i - 1)]
            /\ \A i \in 1..(n - 1) : r_powers[i] # 0

(***************************************************************************)
(* SpecRefuse: one run of the update command on the files of a ceremony of *)
(* up to two contributions whose proofs are stored under any of a few      *)
(* names, on any of the SRS files.                                         *)
(***************************************************************************)
\* The names, in the order of the contributions, under which the proofs of a
\* ceremony are stored.
StoredAs ==
    {<<>>, <<ProofName(<<"1">>)>>,
     <<ProofName(<<"1">>), ProofName(<<"2">>)>>,
     <<ProofName(<<"2">>), ProofName(<<"1">>)>>,
     <<ProofName(<<"2">>), ProofName(<<"1", "0">>)>>,
     <<ProofName(<<"1", "0">>), ProofName(<<"2">>)>>}

\* The SRS after c contributions of the scalar 2 each.
RECURSIVE Contributed(_, _)
Contributed(s0, c) ==
    IF c = 0 THEN s0 ELSE SRS_update(Contributed(s0, c - 1), 2)

\* The proof of the c-th contribution.
ContributedProof(s0, c) ==
    UpdateProofCreate(At(Contributed(s0, c - 1).g1s, 1), At(Contributed(s0, c).g1s, 1),
                      2, ScalarONE)

\* The files of the ceremony: the SRS files srs0..srs2, the stored proofs and
\* possibly an entry of ./proofs that is no proof.
RefuseFiles(s0, stored, other) ==
    [path \in {FilecoinPath} \cup {SrsPath(c) : c \in 0..2}
                \cup {<<ProofsDir, stored[c]>> : c \in DOMAIN stored}
                \cup (IF other THEN {OtherEntry} ELSE {}) |->
        IF path = FilecoinPath THEN G1_to_raw_bytes(At(s0.g1s, 1))
        ELSE IF path = OtherEntry THEN <<>>
        ELSE IF path[1] = ProofsDir
             THEN UpdateProof_write_to_file(
                      ContributedProof(s0, CHOOSE c \in DOMAIN stored : stored[c] = path[2]))
             ELSE SRS_write_to_file(
                      Contributed(s0, CHOOSE c \in 0..2 : SrsPath(c) = path))]

InitRefuse ==
    /\ pc = "derive_new_path"
    /\ \E t \in StartSecrets, stored \in StoredAs, other \in BOOLEAN :
        fs = RefuseFiles(SRS_generate(2, t), stored, other)
    /\ old_srs_path \in {SrsPath(c) : c \in 0..2}
    /\ new_paths = Unset
    /\ written_calls = 0
    /\ created = {}
    /\ srs = Unset /\ nu = Unset /\ old_g1_point = Unset /\ update_proof = Unset
    /\ srs_old = Unset /\ tau = Unset /\ corruption = Unset /\ nu_product = Unset
    /\ updates = Unset /\ nu_powers = Unset /\ pending = Unset /\ rho = Unset
    /\ structure = Unset
    /\ SchnorrIdle /\ SerdeIdle /\ StoreIdle /\ ChainIdle /\ DrandIdle /\ FftIdle

SpecRefuse ==
    InitRefuse /\ [][NextUpdate]_vars

\* The proofs of ./proofs the running command did not write, by name.
EarlierProofNames ==
    {path[2] : path \in {q \in EarlierProofs : proof_number(q[2]) # None}}

\* The name of the earlier proof with the greatest number.
LastEarlierProof ==
    CHOOSE n \in EarlierProofNames :
        \A m \in EarlierProofNames : proof_number(m) <= proof_number(n)

\* g1s[1] of the SRS the command read.
OldG1Point ==
    IF pc \in {"assert_eq", "srs.update"} THEN At(srs.g1s, 1) ELSE old_g1_point

\* The SRS read extends the chain of the store.
ExtendsStore ==
    /\ EarlierProofNames # {}
    /\ OldG1Point = UpdateProof_read_from_file(fs[<<ProofsDir, LastEarlierProof>>]).h

BeforeSrsUpdate ==
    {"derive_new_path", "generate_toxic_waste", "read_from_file", "assert_eq"}

\* C21: the command is at or past SRS::update, or has created a file, only
\* if g1s[1] of the SRS it read is the h of the proof of ./proofs with the
\* greatest number; otherwise, unless the process dies first, it panics at
\* the assertion; and up to and
\* including the assertion no step changes a file, so that a command that
\* panicked has created no file and left every file as it was.
C21_AbortsUnlessExtends ==
    /\ []((pc \in UpdateSteps \ BeforeSrsUpdate \/ pc = "update_done" \/ created # {})
             => ExtendsStore)
    /\ []((pc \in BeforeSrsUpdate \/ pc = "panicked") => created = {})
    /\ [][/\ pc \in BeforeSrsUpdate => fs' = fs
          /\ (pc = "assert_eq" /\ pc' # "crashed") =>
                pc' = IF ExtendsStore THEN "srs.update" ELSE "panicked"]_vars

\* The SRS read matches the proof stored as proof2, the last by name, while
\* proof10 is the last by number: the command panicked and wrote nothing.
C21_Witness ==
    /\ pc = "panicked"
    /\ {ProofName(<<"2">>), ProofName(<<"1", "0">>)} \subseteq DirNames(fs, ProofsDir)
    /\ At(srs.g1s, 1) = UpdateProof_read_from_file(fs[ProofPath(2)]).h
    /\ created = {}
    /\ DOMAIN fs \cap {SrsPath(3), ProofPath(3), SrsPath(4), ProofPath(4)} = {}

(***************************************************************************)
(* SpecCeremony: the verify-chain command on an SRS file, then the update  *)
(* command on it, again and again, on a store that holds one proof, under  *)
(* any name proof<n>, and possibly one other entry.                        *)
(***************************************************************************)
\* The loop of verify_chain from proof k on: the g it ends with, or None
\* when a proof fails its checks.
RECURSIVE chain_walk(_, _, _)
chain_walk(chain, g, k) ==
    IF k > Len(chain) THEN g
    ELSE IF link_check(chain[k], g) # "ok" THEN None
    ELSE chain_walk(chain, chain[k].h, k + 1)

\* verify_chain(last_srs_path) on the given files, read_dir yielding the
\* given entries: "ok", or where it panicked.
verify_chain(files, entries, path) ==
    LET first == read_g1_point_from_file(files[FilecoinPath], 0)
        last == read_g1_point_from_file(files[path], G1_SIZE)
        chain == ReadChain(files, entries)
    IN  IF first = None \/ last = None \/ \E k \in DOMAIN chain : chain[k] = Panicked
        THEN "read"
        ELSE LET g == chain_walk(chain, first, 1)
             IN  IF g = None THEN "loop"
                 ELSE IF g = last THEN "ok"
                 ELSE "assert_eq!(g, last_g1_point)"

\* The verify-chain command is run on the SRS file the update command is
\* about to be run on.
VerifyChainCommand ==
    /\ pc = "derive_new_path"
    /\ chain_result = Unset
    /\ \E l \in Listings(DirNames(fs, ProofsDir)) :
        chain_result' = verify_chain(fs, l, old_srs_path)
    /\ last_srs_path' = old_srs_path
    /\ UNCHANGED <<pc, fs, schnorrVars, srsVars, serdeVars, storeVars, updateVars,
                   drandVars, fftVars, nus, chain_tamper, first_g1_point,
                   last_g1_point, chain_of_proofs, chain_g, link>>

\* The update command has ended, one way or another, and the two commands
\* are run again on an SRS file of the directory.
UpdateAgain ==
    /\ pc \in {"update_done", "panicked", "crashed"}
    /\ updates + 1 < MaxUpdates
    /\ updates' = updates + 1
    /\ pc' = "derive_new_path"
    /\ old_srs_path' \in {q \in DOMAIN fs : q[1] = "." /\ q # FilecoinPath}
    /\ new_paths' = Unset
    /\ written_calls' = 0
    /\ created' = {}
    /\ srs' = Unset /\ nu' = Unset /\ old_g1_point' = Unset /\ update_proof' = Unset
    /\ last_srs_path' = Unset /\ chain_result' = Unset
    /\ UNCHANGED <<fs, schnorrVars, serdeVars, storeVars, srs_old, tau, corruption,
                   nu_product, nu_powers, pending, rho, structure, drandVars,
                   fftVars, nus, chain_tamper, first_g1_point, last_g1_point,
                   chain_of_proofs, chain_g, link>>

\* The numbers under which the proof of the first contribution may be stored.
CeremonyNumbers == {1, 2, 10}

InitCeremony ==
    /\ pc = "derive_new_path"
    /\ \E t \in StartSecrets, m \in CeremonyNumbers, other \in BOOLEAN :
        fs = StoreFiles(SRS_generate(2, t), m, other)
    /\ old_srs_path \in {q \in DOMAIN fs : q[1] = "." /\ q # FilecoinPath}
    /\ new_paths = Unset
    /\ written_calls = 0
    /\ created = {}
    /\ updates = 0
    /\ srs = Unset /\ nu = Unset /\ old_g1_point = Unset /\ update_proof = Unset
    /\ srs_old = Unset /\ tau = Unset /\ corruption = Unset /\ nu_product = Unset
    /\ nu_powers = Unset /\ pending = Unset /\ rho = Unset /\ structure = Unset
    /\ SchnorrIdle /\ SerdeIdle /\ StoreIdle /\ ChainIdle /\ DrandIdle /\ FftIdle

NextCeremony ==
    VerifyChainCommand \/ NextUpdate \/ UpdateAgain

SpecCeremony ==
    InitCeremony /\ [][NextCeremony]_vars

\* C22: when verify_chain succeeded on the old SRS file and the update
\* command has then completed, the proof file it wrote is the last of the
\* store by number and verify_chain succeeds on the new SRS file, whatever
\* ./proofs held at first and however many update commands ran before.
C22_UpdateKeepsChainValid ==
    (pc = "update_done" /\ chain_result = "ok") =>
        \A l \in Listings(DirNames(fs, ProofsDir)) :
            /\ open_update_proof_dirs(l) # <<>>
            /\ open_update_proof_dirs(l)[Len(open_update_proof_dirs(l))]
                  = new_paths.new_proof_path[2]
            /\ verify_chain(fs, l, new_paths.new_srs_path) = "ok"

====
